---- MODULE Spec2Model ----
(***************************************************************************)
(* State-machine model of the reconciliation core of the Maistra          *)
(* istio-operator:                                                         *)
(*   - bootstrap.InstallCRDs            (pkg/bootstrap/crds.go)            *)
(*   - common.ManifestProcessor         (pkg/controller/common/            *)
(*                                       manifestprocessing.go)            *)
(* Each client call (Get/Create/Update/Patch/Delete) is one step, so that  *)
(* concurrent workers can interleave between calls.  The API server and    *)
(* the injected hooks are external: every call draws its outcome from the  *)
(* outcomes the server can produce.                                        *)
(***************************************************************************)
EXTENDS Integers, Sequences, FiniteSets, TLC

\* ------------------------------------------------------------------ bounds
MaxInstalls == 2      \* InstallCRDs invocations explored in one behaviour
MaxFaults == 2        \* injected client/collaborator failures per behaviour

\* ------------------------------------------------------------- workers
\* reconciler workers of the process (controlPlaneReconcilers et al.)
Workers == {"w1", "w2"}

(***************************************************************************)
(*                       PART 1: CRD installer                             *)
(***************************************************************************)
VARIABLES
    crdMutex,      \* holder of the process-wide lock, or "free"
    crds,          \* cluster: CRD name -> installed CRD (or absent)
    role,          \* cluster: TRUE iff ClusterRole istio-admin exists
    ipc,           \* worker -> position inside InstallCRDs
    iver,          \* worker -> chart version argument of the invocation
    ifile,         \* worker -> index of the file being walked
    idoc,          \* worker -> index of the document inside the file
    icrd,          \* worker -> the CRD object createCRD is working on
    iexist,        \* worker -> existingCrd fetched by createCRD's Get
    ierrs,         \* worker -> allErrors of the current processCRDFile
    iret,          \* worker -> value returned by the last InstallCRDs
    icalls,        \* worker -> client calls issued by the current createCRD
    cerr,          \* worker -> err of createCRD's last Create or Update
    rcalls,        \* worker -> client calls of installCRDRole in the
                   \*   worker's latest InstallCRDs
    installs,      \* number of InstallCRDs invocations started
    faults         \* number of failures injected so far

crdVars == <<crdMutex, crds, role, ipc, iver, ifile, idoc, icrd, iexist,
             ierrs, iret, icalls, cerr, rcalls, installs>>

VARIABLES
    objs,          \* cluster: ResourceKey -> live object (or absent)
    nextRV,        \* the server's next resourceVersion
    mactive,       \* the workers that run ProcessManifests
    manifests,     \* worker -> the manifests argument of its calls
    mpc,           \* worker -> position inside ProcessManifests/processObject
    mman,          \* worker -> index of the manifest being processed
    stack,         \* worker -> frames <<docs left, allErrors>>: frame 1 is
                   \*   ProcessManifests, the others are List recursions
    obj,           \* worker -> the desired object processObject works on
    perr,          \* worker -> err of the current processObject
    mcalls,        \* worker -> hook and client calls of the current call
    mret,          \* worker -> aggregate returned by the last finished call
    mprev,         \* worker -> aggregate returned by the call before
    mstarted,      \* worker -> number of ProcessManifests calls started
    mf0,           \* worker -> value of faults when the current call started
    mseen,         \* worker -> documents of the manifests dispatched so far
    mfail          \* worker -> top-level documents that failed so far

mpVars == <<objs, nextRV, mactive, manifests, mpc, mman, stack, obj, perr,
            mcalls, mret, mprev, mstarted, mf0, mseen, mfail>>

VARIABLES
    nps,           \* cluster: namespace -> NetworkPolicy name -> object
    nactive,       \* the workers that own a networkPolicyStrategy
    npc,           \* worker -> position inside the strategy's methods
    slist,         \* worker -> strategy.networkPoliciesList (items, in order)
    srequired,     \* worker -> strategy.requiredNetworkPolicies
    nns,           \* worker -> the namespace argument of the current call
    nkind,         \* worker -> "reconcile" or "remove": the current call
    nexisting,     \* worker -> existingNetworkPolicies
    nadded,        \* worker -> addedNetworkPolicies
    nitems,        \* worker -> items the current range loop has yet to visit
    ndel,          \* worker -> names the delete loop has yet to visit
    nerrs,         \* worker -> allErrors
    ncalls,        \* worker -> client calls of the current call
    nret,          \* worker -> value returned by the last finished call
    nprev,         \* worker -> the call before: its kind, namespace and
                   \*   returned value
    npasses        \* number of reconcile/remove calls started

npVars == <<nps, nactive, npc, slist, srequired, nns, nkind, nexisting, nadded,
            nitems, ndel, nerrs, ncalls, nret, nprev, npasses>>

VARIABLES
    nslabel,       \* cluster: namespace -> its member-of label ("" if none)
    rbs,           \* cluster: namespace -> RoleBinding name -> object
    nad,           \* cluster: namespace -> TRUE iff it holds the mesh's
                   \*   NetworkAttachmentDefinition
    nsactive,      \* the workers that own a namespaceReconciler
    nspc,          \* worker -> position inside the reconciler's methods
    nsns,          \* worker -> the namespace argument of the current call
    nskind,        \* worker -> "reconcile" or "remove": the current call
    rblist,        \* worker -> the mesh RoleBindings listed at construction,
                   \*   as <<name, object>> records
    rbrequired,    \* worker -> the names of the RoleBindings members require
    nsexisting,    \* worker -> the member-of-labeled RoleBindings listed
    nsadded,       \* worker -> the RoleBindings created by the current call
    nsitems,       \* worker -> items the current loop has yet to visit
    nsdel,         \* worker -> names the delete loop has yet to visit
    nserrs,        \* worker -> allErrors
    nscalls,       \* worker -> client and strategy calls of the current call
    nsret,         \* worker -> value returned by the last finished call
    sinvoked       \* worker -> invocations the networking strategy received
                   \*   since the reconciler was constructed

nsVars == <<nslabel, rbs, nad, nsactive, nspc, nsns, nskind, rblist, rbrequired,
            nsexisting, nsadded, nsitems, nsdel, nserrs, nscalls, nsret,
            sinvoked>>

VARIABLES
    dpc,           \* worker -> position inside ControlPlaneReconciler.Delete
    derr,          \* worker -> err, the value prune returned
    dret,          \* worker -> value returned by the last finished Delete
    devents,       \* worker -> events the recorder received for r.Instance
                   \*   during the current Delete
    deletes        \* number of Delete calls started

delVars == <<dpc, derr, dret, devents, deletes>>

VARIABLES
    clock,         \* time.Now(), in seconds
    earliest,      \* earliestReconciliationTimes: NamespacedName -> its
                   \*   entry, or NoEntry for a name that is not in the map
    hpanic         \* TRUE once SkipReconciliationUntilCacheSynced panicked

skipVars == <<clock, earliest, hpanic>>

VARIABLES
    hcrd,          \* the CRD handed to RemoveTypeObjectFieldsFromCRDSchema:
                   \*   its spec.validation, a pointer
    hcalls,        \* calls of RemoveTypeObjectFieldsFromCRDSchema so far
    herr           \* what the last call returned: "none" before the first

schemaVars == <<hcrd, hcalls, herr>>

VARIABLES
    pin,           \* in.Proxy.Networking.Initialization of the ControlPlaneSpec
    pvalues,       \* the helm values map populateProxyValues writes to
    ppc,           \* "idle" before populateProxyValues is called, then "done"
    pret           \* what populateProxyValues returned: "none" before the call

proxyVars == <<pin, pvalues, ppc, pret>>

auxVars == <<skipVars, schemaVars, proxyVars>>

\* the state the methods of one component leave alone
notCRD == <<mpVars, npVars, nsVars, delVars, auxVars>>
notMP == <<crdVars, npVars, nsVars, delVars, auxVars>>
notNP == <<crdVars, mpVars, nsVars, delVars, auxVars>>
notNS == <<crdVars, mpVars, delVars, auxVars>>
notDel == <<crdVars, mpVars, npVars, nsVars, auxVars, faults>>
notSkip == <<crdVars, mpVars, npVars, nsVars, delVars, schemaVars, proxyVars,
            faults>>
notSchema == <<crdVars, mpVars, npVars, nsVars, delVars, skipVars, proxyVars,
              faults>>
notProxy == <<crdVars, mpVars, npVars, nsVars, delVars, skipVars, schemaVars,
             faults>>

vars == <<crdVars, mpVars, npVars, nsVars, delVars, auxVars, faults>>

CRDNames == {"a", "b"}

NoCRD == [present |-> FALSE, label |-> "", body |-> 0, schema |-> "none"]

Crd(n, l, b, s) == [kind |-> "crd", name |-> n, label |-> l, body |-> b, schema |-> s]
BadDoc == [kind |-> "bad", name |-> "", label |-> "", body |-> 0, schema |-> "none"]
OtherDoc == [kind |-> "other", name |-> "", label |-> "", body |-> 0, schema |-> "none"]

\* <charts-dir>/<version>/istio-init/files : the files of each chart version,
\* in the lexical order filepath.Walk visits them; "v0" has no such directory
ChartVersions == {"v0", "v1", "v2", "v3"}
ChartFiles(v) ==
    CASE v = "v1" -> << <<Crd("a", "1.0.0", 1, "object"), OtherDoc>>,
                        <<Crd("b", "1.0.0", 1, "none")>> >>
      [] v = "v2" -> << <<Crd("a", "1.1.0", 2, "object")>>,
                        <<BadDoc, Crd("b", "junk", 2, "none")>>,
                        <<Crd("b", "1.10.0", 3, "none")>> >>
      [] v = "v3" -> << <<Crd("a", "", 3, "none"), Crd("b", "1.1.0", 1, "none")>> >>
      [] OTHER -> << >>

\* semver.NewVersion: the parsed <<major, minor, patch>>, or <<>> on error
NewVersion(l) ==
    CASE l = "1.0.0" -> <<1, 0, 0>>
      [] l = "1.1.0" -> <<1, 1, 0>>
      [] l = "1.10.0" -> <<1, 10, 0>>
      [] OTHER -> << >>

getMaistraVersionDefault(crd) ==
    IF NewVersion(crd.label) = << >> THEN <<0, 0, 0>> ELSE NewVersion(crd.label)

\* getMaistraVersion: semver.NewVersion of the maistra-version label
getMaistraVersion(crd) == NewVersion(crd.label)

LessThanLenient(v, o) ==
    \/ v[1] < o[1]
    \/ v[1] = o[1] /\ v[2] < o[2]
    \/ v[1] = o[1] /\ v[2] = o[2] /\ v[3] <= o[3]

LessThanSwapped(v, o) ==
    \/ o[1] < v[1]
    \/ o[1] = v[1] /\ o[2] < v[2]
    \/ o[1] = v[1] /\ o[2] = v[2] /\ o[3] < v[3]

\* semver.Version.LessThan
LessThan(v, o) ==
    \/ v[1] < o[1]
    \/ v[1] = o[1] /\ v[2] < o[2]
    \/ v[1] = o[1] /\ v[2] = o[2] /\ v[3] < o[3]

\* common.GetPatchedObject via getPatchedCrd: nil (NoCRD) when the existing
\* and the new CRD are identical, else the existing CRD with the new one's
\* fields applied
getPatchedCrd(existingCrd, crd) ==
    IF existingCrd.label = crd.label /\ existingCrd.body = crd.body
       /\ existingCrd.schema = crd.schema
    THEN NoCRD
    ELSE [present |-> TRUE, label |-> crd.label, body |-> crd.body,
          schema |-> crd.schema]

\* hacks.removeTypeObjectField on the schema root
RemoveTypeObject(schema) == IF schema = "object" THEN "stripped" ELSE schema

\* outcomes a mutating client call can have
CanFail == faults < MaxFaults
WriteOutcomes == {"ok"} \cup (IF CanFail THEN {"typeobject", "error"} ELSE {})
Fault(o) == IF o = "ok" THEN faults ELSE faults + 1

\* ---- InstallCRDs: crdMutex.Lock()
LockGuardNone(w) == TRUE

LockGuard(w) == crdMutex = "free"

ICLock(w) ==
    /\ ipc[w] = "idle"
    /\ installs < MaxInstalls
    /\ LockGuard(w)
    /\ \E v \in ChartVersions : iver' = [iver EXCEPT ![w] = v]
    /\ crdMutex' = w
    /\ installs' = installs + 1
    /\ ipc' = [ipc EXCEPT ![w] = "stat"]
    /\ iret' = [iret EXCEPT ![w] = "none"]
    /\ rcalls' = [rcalls EXCEPT ![w] = << >>]
    /\ UNCHANGED <<crds, role, ifile, idoc, icrd, iexist, ierrs, icalls, faults>>
    /\ UNCHANGED cerr
    /\ UNCHANGED notCRD

\* ---- InstallCRDs is called while another invocation holds the lock:
\* crdMutex.Lock() blocks (line 36)
ICWait(w) ==
    /\ ipc[w] = "idle"
    /\ installs < MaxInstalls
    /\ ~LockGuard(w)
    /\ \E v \in ChartVersions : iver' = [iver EXCEPT ![w] = v]
    /\ installs' = installs + 1
    /\ ipc' = [ipc EXCEPT ![w] = "lock"]
    /\ iret' = [iret EXCEPT ![w] = "none"]
    /\ rcalls' = [rcalls EXCEPT ![w] = << >>]
    /\ UNCHANGED <<crdMutex, crds, role, ifile, idoc, icrd, iexist, ierrs,
                   icalls, cerr, faults>>
    /\ UNCHANGED notCRD

\* ---- the blocked crdMutex.Lock() returns
ICAcquire(w) ==
    /\ ipc[w] = "lock"
    /\ LockGuard(w)
    /\ crdMutex' = w
    /\ ipc' = [ipc EXCEPT ![w] = "stat"]
    /\ UNCHANGED <<crds, role, iver, ifile, idoc, icrd, iexist, ierrs, iret,
                   icalls, cerr, rcalls, installs, faults>>
    /\ UNCHANGED notCRD

\* ---- InstallCRDs: os.Stat(crdPath); a missing directory returns an error
ICStat(w) ==
    /\ ipc[w] = "stat"
    /\ IF ChartFiles(iver[w]) = << >>
       THEN /\ ipc' = [ipc EXCEPT ![w] = "ret"]
            /\ iret' = [iret EXCEPT ![w] = "error"]
            /\ UNCHANGED <<ifile, idoc, ierrs>>
       ELSE /\ ipc' = [ipc EXCEPT ![w] = "walk"]
            /\ ifile' = [ifile EXCEPT ![w] = 1]
            /\ idoc' = [idoc EXCEPT ![w] = 1]
            /\ ierrs' = [ierrs EXCEPT ![w] = 0]
            /\ UNCHANGED iret
    /\ UNCHANGED <<crdMutex, crds, role, iver, icrd, iexist, icalls, installs, faults>>
    /\ UNCHANGED cerr
    /\ UNCHANGED rcalls
    /\ UNCHANGED notCRD

CurFile(w) == ChartFiles(iver[w])[ifile[w]]

\* ---- filepath.Walk / processCRDFile: the next document of the walk.
\* At the end of a file processCRDFile returns the aggregate of the file's
\* errors; a non-nil value makes Walk, and InstallCRDs, return it at once.
ICWalk(w) ==
    /\ ipc[w] = "walk"
    /\ IF ifile[w] > Len(ChartFiles(iver[w]))
       THEN \* walk finished without error: installCRDRole is next
            /\ ipc' = [ipc EXCEPT ![w] = "roleGet"]
            /\ UNCHANGED <<ifile, idoc, icrd, iexist, ierrs, iret, icalls, cerr>>
       ELSE IF idoc[w] > Len(CurFile(w))
       THEN \* end of file
            IF ierrs[w] > 0
            THEN /\ ipc' = [ipc EXCEPT ![w] = "ret"]
                 /\ iret' = [iret EXCEPT ![w] = "error"]
                 /\ UNCHANGED <<ifile, idoc, icrd, iexist, ierrs, icalls, cerr>>
            ELSE /\ ifile' = [ifile EXCEPT ![w] = @ + 1]
                 /\ idoc' = [idoc EXCEPT ![w] = 1]
                 /\ UNCHANGED <<ipc, icrd, iexist, ierrs, iret, icalls, cerr>>
       ELSE LET d == CurFile(w)[idoc[w]] IN
            CASE d.kind = "bad" ->     \* decodeCRD failed
                   /\ ierrs' = [ierrs EXCEPT ![w] = @ + 1]
                   /\ idoc' = [idoc EXCEPT ![w] = @ + 1]
                   /\ UNCHANGED <<ipc, ifile, icrd, iexist, iret, icalls, cerr>>
              [] d.kind = "other" ->   \* not a CRD: decodeCRD returns nil, nil
                   /\ idoc' = [idoc EXCEPT ![w] = @ + 1]
                   /\ UNCHANGED <<ipc, ifile, icrd, iexist, ierrs, iret, icalls, cerr>>
              [] OTHER ->              \* createCRD(crd) starts
                   /\ icrd' = [icrd EXCEPT ![w] = d]
                   /\ iexist' = [iexist EXCEPT ![w] = NoCRD]
                   /\ icalls' = [icalls EXCEPT ![w] = << >>]
                   /\ cerr' = [cerr EXCEPT ![w] = "none"]
                   /\ ipc' = [ipc EXCEPT ![w] = "get"]
                   /\ UNCHANGED <<ifile, idoc, ierrs, iret>>
    /\ UNCHANGED <<crdMutex, crds, role, iver, installs, faults>>
    /\ UNCHANGED rcalls
    /\ UNCHANGED notCRD

\* createCRD returns err ("nil" or "error") to processCRDFile
CrdReturn(w, err) ==
    /\ ierrs' = [ierrs EXCEPT ![w] = IF err = "nil" THEN @ ELSE @ + 1]
    /\ idoc' = [idoc EXCEPT ![w] = @ + 1]
    /\ ipc' = [ipc EXCEPT ![w] = "walk"]

NeedsUpdateLenient(existingCrd, crd) ==
    LET newVersion == getMaistraVersion(crd)
        existingVersion == getMaistraVersion(existingCrd)
    IN  existingVersion = << >> \/ LessThanLenient(existingVersion, newVersion)

\* createCRD line 155: existingVersion == nil || existingVersion.LessThan(newVersion)
NeedsUpdate(existingCrd, crd) ==
    LET newVersion == getMaistraVersion(crd)
        existingVersion == getMaistraVersion(existingCrd)
    IN  existingVersion = << >> \/ LessThan(existingVersion, newVersion)

\* ---- createCRD: cl.Get(existingCrd) and the decision that follows it
CGet(w) ==
    /\ ipc[w] = "get"
    /\ LET crd == icrd[w]
           live == crds[crd.name]
       IN \/ \* Get fails with an error other than NotFound
             /\ CanFail
             /\ faults' = faults + 1
             /\ icalls' = [icalls EXCEPT ![w] = Append(@, "Get")]
             /\ CrdReturn(w, "error")
             /\ UNCHANGED iexist
          \/ /\ ~live.present     \* NotFound: create
             /\ icalls' = [icalls EXCEPT ![w] = Append(@, "Get")]
             /\ ipc' = [ipc EXCEPT ![w] = "create"]
             /\ UNCHANGED <<iexist, ierrs, idoc, faults>>
          \/ /\ live.present
             /\ icalls' = [icalls EXCEPT ![w] = Append(@, "Get")]
             /\ iexist' = [iexist EXCEPT ![w] = live]
             /\ UNCHANGED faults
             /\ IF getMaistraVersion(crd) = << >>
                THEN CrdReturn(w, "error")  \* Could not determine version of new CRD
                ELSE IF NeedsUpdate(live, crd)
                        /\ getPatchedCrd(live, crd) # NoCRD
                THEN /\ ipc' = [ipc EXCEPT ![w] = "update"]
                     /\ UNCHANGED <<ierrs, idoc>>
                ELSE CrdReturn(w, "nil")    \* CRD exists / identical
    /\ UNCHANGED <<crdMutex, crds, role, iver, ifile, icrd, iret, installs>>
    /\ UNCHANGED cerr
    /\ UNCHANGED rcalls
    /\ UNCHANGED notCRD

\* the err a write call returns for an outcome of the server
ErrOf(o) == IF o = "ok" THEN "nil" ELSE o

IsAnyProblem(err) == err # "nil"

\* hacks.IsTypeObjectProblemInCRDSchemas: err is the server's rejection of
\* "type: object" at the root of a schema
IsTypeObjectProblemInCRDSchemas(err) == err = "typeobject"

\* ---- createCRD: cl.Update(patchedCrd), first attempt and the retry
CUpdate(w) ==
    /\ ipc[w] \in {"update", "update2"}
    /\ icalls' = [icalls EXCEPT ![w] = Append(@, "Update")]
    /\ \E o \in WriteOutcomes :
        /\ faults' = Fault(o)
        /\ cerr' = [cerr EXCEPT ![w] = ErrOf(o)]
        /\ CASE o = "ok" ->
                 /\ crds' = [crds EXCEPT ![icrd[w].name] =
                                 getPatchedCrd(iexist[w], icrd[w])]
                 /\ CrdReturn(w, "nil")
                 /\ UNCHANGED icrd
             [] IsTypeObjectProblemInCRDSchemas(ErrOf(o)) /\ ipc[w] = "update" ->
                 \* hacks.RemoveTypeObjectFieldsFromCRDSchema, then retry
                 IF icrd[w].schema = "none"
                 THEN /\ CrdReturn(w, "error")
                      /\ UNCHANGED <<crds, icrd>>
                 ELSE /\ icrd' = [icrd EXCEPT ![w].schema = RemoveTypeObject(@)]
                      /\ ipc' = [ipc EXCEPT ![w] = "update2"]
                      /\ UNCHANGED <<crds, ierrs, idoc>>
             [] OTHER ->
                 /\ CrdReturn(w, "error")
                 /\ UNCHANGED <<crds, icrd>>
    /\ UNCHANGED <<crdMutex, role, iver, ifile, iexist, iret, installs>>
    /\ UNCHANGED rcalls
    /\ UNCHANGED notCRD

\* ---- createCRD: cl.Create(crd), first attempt and the retry
CCreate(w) ==
    /\ ipc[w] \in {"create", "create2"}
    /\ icalls' = [icalls EXCEPT ![w] = Append(@, "Create")]
    /\ \/ \* the server rejects a Create of a name that exists
          /\ crds[icrd[w].name].present
          /\ cerr' = [cerr EXCEPT ![w] = "AlreadyExists"]
          /\ CrdReturn(w, "error")
          /\ UNCHANGED <<crds, icrd, faults>>
       \/ /\ ~crds[icrd[w].name].present
          /\ \E o \in WriteOutcomes :
              /\ faults' = Fault(o)
              /\ cerr' = [cerr EXCEPT ![w] = ErrOf(o)]
              /\ CASE o = "ok" ->
                       /\ crds' = [crds EXCEPT ![icrd[w].name] =
                                      [present |-> TRUE, label |-> icrd[w].label,
                                       body |-> icrd[w].body,
                                       schema |-> icrd[w].schema]]
                       /\ CrdReturn(w, "nil")
                       /\ UNCHANGED icrd
                   [] IsTypeObjectProblemInCRDSchemas(ErrOf(o)) /\ ipc[w] = "create" ->
                       IF icrd[w].schema = "none"
                       THEN /\ CrdReturn(w, "error")
                            /\ UNCHANGED <<crds, icrd>>
                       ELSE /\ icrd' = [icrd EXCEPT ![w].schema = RemoveTypeObject(@)]
                            /\ ipc' = [ipc EXCEPT ![w] = "create2"]
                            /\ UNCHANGED <<crds, ierrs, idoc>>
                   [] OTHER ->
                       /\ CrdReturn(w, "error")
                       /\ UNCHANGED <<crds, icrd>>
    /\ UNCHANGED <<crdMutex, role, iver, ifile, iexist, iret, installs>>
    /\ UNCHANGED rcalls
    /\ UNCHANGED notCRD

RCall(op, res) == [op |-> op, res |-> res]

RoleNotFoundAlways(present) == TRUE

\* installCRDRole line 83: errors.IsNotFound(err) of the Get
RoleNotFound(present) == ~present

\* ---- installCRDRole: cl.Get(crdRole)
RoleGet(w) ==
    /\ ipc[w] = "roleGet"
    /\ \/ /\ CanFail
          /\ faults' = faults + 1
          /\ ipc' = [ipc EXCEPT ![w] = "ret"]
          /\ iret' = [iret EXCEPT ![w] = "error"]
          /\ rcalls' = [rcalls EXCEPT ![w] = Append(@, RCall("Get", "error"))]
       \/ /\ ~RoleNotFound(role)
          /\ ipc' = [ipc EXCEPT ![w] = "ret"]
          /\ iret' = [iret EXCEPT ![w] = "nil"]
          /\ rcalls' = [rcalls EXCEPT ![w] = Append(@, RCall("Get", "nil"))]
          /\ UNCHANGED faults
       \/ /\ RoleNotFound(role)
          /\ ipc' = [ipc EXCEPT ![w] = "roleCreate"]
          /\ rcalls' = [rcalls EXCEPT ![w] = Append(@, RCall("Get", "NotFound"))]
          /\ UNCHANGED <<iret, faults>>
    /\ UNCHANGED <<crdMutex, crds, role, iver, ifile, idoc, icrd, iexist,
                   ierrs, icalls, installs>>
    /\ UNCHANGED cerr
    /\ UNCHANGED notCRD

\* ---- installCRDRole: cl.Create(crdRole)
RoleCreate(w) ==
    /\ ipc[w] = "roleCreate"
    /\ ipc' = [ipc EXCEPT ![w] = "ret"]
    /\ \/ /\ CanFail \/ role
          /\ faults' = IF role THEN faults ELSE faults + 1
          /\ iret' = [iret EXCEPT ![w] = "error"]
          /\ rcalls' = [rcalls EXCEPT ![w] = Append(@, RCall("Create", "error"))]
          /\ UNCHANGED role
       \/ /\ ~role
          /\ role' = TRUE
          /\ iret' = [iret EXCEPT ![w] = "nil"]
          /\ rcalls' = [rcalls EXCEPT ![w] = Append(@, RCall("Create", "nil"))]
          /\ UNCHANGED faults
    /\ UNCHANGED <<crdMutex, crds, iver, ifile, idoc, icrd, iexist, ierrs,
                   icalls, installs>>
    /\ UNCHANGED cerr
    /\ UNCHANGED notCRD

UnlockOnSuccess(holder, ret) == IF ret = "nil" THEN "free" ELSE holder

\* line 37: defer crdMutex.Unlock() runs on every return of InstallCRDs
DeferredUnlock(holder, ret) == "free"

\* ---- InstallCRDs returns: the deferred crdMutex.Unlock(); the locals of the
\* invocation go out of scope
ICReturn(w) ==
    /\ ipc[w] = "ret"
    /\ crdMutex' = DeferredUnlock(w, iret[w])
    /\ ipc' = [ipc EXCEPT ![w] = "idle"]
    /\ ifile' = [ifile EXCEPT ![w] = 1]
    /\ idoc' = [idoc EXCEPT ![w] = 1]
    /\ icrd' = [icrd EXCEPT ![w] = BadDoc]
    /\ iexist' = [iexist EXCEPT ![w] = NoCRD]
    /\ ierrs' = [ierrs EXCEPT ![w] = 0]
    /\ icalls' = [icalls EXCEPT ![w] = << >>]
    /\ cerr' = [cerr EXCEPT ![w] = "none"]
    /\ UNCHANGED <<crds, role, iver, iret, installs, faults>>
    /\ UNCHANGED rcalls
    /\ UNCHANGED notCRD


(***************************************************************************)
(*                     PART 2: Manifest processor                          *)
(***************************************************************************)
MaxCalls == 2         \* ProcessManifests calls per worker in one behaviour

Keys == {"k1", "k2"}

\* ---- labels
KubernetesAppNameKey == "app.kubernetes.io/name"
KubernetesAppInstanceKey == "app.kubernetes.io/instance"
KubernetesAppVersionKey == "app.kubernetes.io/version"
KubernetesAppComponentKey == "app.kubernetes.io/component"
KubernetesAppPartOfKey == "app.kubernetes.io/part-of"
KubernetesAppManagedByKey == "app.kubernetes.io/managed-by"
OwnerKey == "maistra.io/owner"

\* the processor's construction parameters and the component argument
AppInstance == "istio-system"
AppVersion == "2.1.0"
Owner == "istio-system"
Component == "istio-discovery"

NoLabels == [k \in {} |-> ""]

\* SetLabels: every given label is written into the object's label map
SetLabels(o, labels) ==
    [o EXCEPT !.labels = [k \in DOMAIN o.labels \cup DOMAIN labels |->
                             IF k \in DOMAIN labels THEN labels[k] ELSE o.labels[k]]]

StdLabelsNoOwner(component) ==
    [k \in {KubernetesAppNameKey, KubernetesAppInstanceKey, KubernetesAppVersionKey,
            KubernetesAppComponentKey, KubernetesAppPartOfKey,
            KubernetesAppManagedByKey} |->
        CASE k = KubernetesAppNameKey -> component
          [] k = KubernetesAppInstanceKey -> AppInstance
          [] k = KubernetesAppVersionKey -> AppVersion
          [] k = KubernetesAppComponentKey -> component
          [] k = KubernetesAppPartOfKey -> "istio"
          [] OTHER -> "maistra-istio-operator"]

addMetadataNoOwner(o, component) == SetLabels(o, StdLabelsNoOwner(component))

\* ManifestProcessor.addMetadata
addMetadata(o, component) ==
    SetLabels(o,
        [k \in {KubernetesAppNameKey, KubernetesAppInstanceKey,
                KubernetesAppVersionKey, KubernetesAppComponentKey,
                KubernetesAppPartOfKey, KubernetesAppManagedByKey, OwnerKey} |->
            CASE k = KubernetesAppNameKey -> component
              [] k = KubernetesAppInstanceKey -> AppInstance
              [] k = KubernetesAppVersionKey -> AppVersion
              [] k = KubernetesAppComponentKey -> component
              [] k = KubernetesAppPartOfKey -> "istio"
              [] k = KubernetesAppManagedByKey -> "maistra-istio-operator"
              [] OTHER -> Owner])

\* ---- documents and manifests
\* an object document: data is a mutable field, sel an immutable one
Obj(k, d, s, l) == [kind |-> "obj", key |-> k, data |-> d, sel |-> s,
                    labels |-> l, rv |-> 0, items |-> << >>]
List(items) == [kind |-> "list", key |-> "", data |-> 0, sel |-> 0,
                labels |-> NoLabels, rv |-> 0, items |-> items]
Bad == [kind |-> "bad", key |-> "", data |-> 0, sel |-> 0,
        labels |-> NoLabels, rv |-> 0, items |-> << >>]
NoObj == [kind |-> "none", key |-> "", data |-> 0, sel |-> 0,
          labels |-> NoLabels, rv |-> 0, items |-> << >>]

\* a manifest name is its path split before every "."
Manifest(name, docs) == [name |-> name, docs |-> docs]

OwnLabels == [k \in {"app", KubernetesAppPartOfKey} |->
                 IF k = "app" THEN "istiod" ELSE "other"]

\* the batches the reconciler is run on
Batches == {
    \* a role binding and a config map
    << Manifest(<<"templates/rb", ".yaml">>,
                <<Obj("k1", 1, 1, NoLabels), Obj("k2", 1, 1, OwnLabels)>>) >>,
    \* five documents in three .yaml blobs, one of which does not decode,
    \* a List, and two blobs that are not .yaml
    << Manifest(<<"NOTES", ".txt">>, <<Obj("k2", 2, 2, NoLabels)>>),
       Manifest(<<"templates/a", ".yaml">>,
                <<Obj("k1", 1, 1, NoLabels), Bad>>),
       Manifest(<<"templates/b", ".yaml">>,
                <<Obj("k2", 1, 1, NoLabels),
                  List(<<Obj("k1", 1, 1, NoLabels),
                         List(<<Obj("k2", 1, 1, NoLabels)>>)>>)>>),
       Manifest(<<"templates/c", ".yaml">>, <<Obj("k2", 1, 1, NoLabels)>>),
       Manifest(<<"templates/all", ".yaml", ".orig">>, <<Bad>>) >>,
    \* two documents with the same ResourceKey and different content
    << Manifest(<<"templates/cm", ".yaml">>,
                <<Obj("k1", 1, 1, NoLabels), Obj("k1", 2, 1, NoLabels)>>) >>,
    \* two documents with the same ResourceKey that differ in the immutable
    \* field
    << Manifest(<<"templates/svc", ".yaml">>,
                <<Obj("k1", 1, 1, NoLabels), Obj("k1", 1, 2, NoLabels)>>) >>
  }

\* the name holds the suffix anywhere
Contains(name, suffix) == \E i \in DOMAIN name : name[i] = suffix

\* strings.HasSuffix(man.Name, ".yaml")
HasSuffix(name, suffix) == Len(name) > 0 /\ name[Len(name)] = suffix

\* ---- the live objects of the cluster
Absent == [present |-> FALSE, data |-> 0, sel |-> 0, labels |-> NoLabels,
           rv |-> 0, by |-> "none"]

Live(d, s, l, r, by) == [present |-> TRUE, data |-> d, sel |-> s, labels |-> l,
                         rv |-> r, by |-> by]

\* PatchFactory.CreatePatch(receiver, obj): nil ("none") when the live object
\* already has every field of the desired one, else a patch
CreatePatch(receiver, o) ==
    IF /\ receiver.data = o.data
       /\ receiver.sel = o.sel
       /\ \A k \in DOMAIN o.labels :
              k \in DOMAIN receiver.labels /\ receiver.labels[k] = o.labels[k]
    THEN "none"
    ELSE "patch"

\* the object the server stores when it accepts a Create or a patch of o
Stored(o, by) == Live(o.data, o.sel, o.labels, nextRV, by)

\* ---- decisions of processObject
ApplyAlways(patch) == TRUE

ApplyWhenEmpty(patch) == patch = "none"

\* line 146: err == nil && patch != nil
ApplyNeeded(patch) == patch # "none"

IsNotFoundAlways(live) == TRUE

\* errors.IsNotFound(err) of the Get, line 133
IsNotFound(live) == ~live.present

IsNotNil(err) == err # "nil"

IsInvalidNever(err) == FALSE

\* errors.IsInvalid(err), line 149
IsInvalid(err) == err = "Invalid"

\* the propagation policy of the fallback's Delete, line 152
DeletePropagation == "Background"

KeepResourceVersion(o) == o

\* obj.SetResourceVersion(""), line 154
ClearResourceVersion(o) == [o EXCEPT !.rv = 0]

RecreateErrSurfaced(patchErr, createErr) == createErr

\* lines 155-160: err is reset only when the re-Create succeeds
RecreateErr(patchErr, createErr) ==
    IF createErr = "nil" THEN "nil" ELSE patchErr

DropRest(rest) == << >>

\* lines 59-71: a document that fails to decode is recorded and skipped
\* (continue): the documents not yet visited remain
AfterDecodeError(rest) == rest

\* the sequence s without its i-th element
Without(s, i) == SubSeq(s, 1, i - 1) \o SubSeq(s, i + 1, Len(s))

\* the documents a range loop may visit next.  releaseutil.SplitManifests
\* returns a map[string]string, so the loop of line 58 visits the documents
\* of a blob in the order Go's map iteration produces, which is unspecified;
\* list.Items (line 96) is a slice and is visited in order
RangeNext(n, docs) == IF n = 1 THEN DOMAIN docs ELSE {1}

NoAggregate(errs) == "nil"

\* utilerrors.NewAggregate(allErrors) of a List (line 102): nil when no item
\* failed, otherwise one error that holds the items' errors
NewAggregate(errs) == IF errs = << >> THEN "nil" ELSE "aggregate"

\* ---- bookkeeping
Top(w) == stack[w][Len(stack[w])]

\* a record of one hook or client call: the object as it was passed, the
\* live resourceVersion before the call, the result, and the
\* resourceVersion the server assigned
Call(op, w, pol, res, newrv) ==
    [op |-> op, key |-> obj[w].key, pol |-> pol, labels |-> obj[w].labels,
     sent |-> obj[w].rv, live |-> objs[obj[w].key].rv, res |-> res,
     newrv |-> newrv]

Logged(w, call) == mcalls' = [mcalls EXCEPT ![w] = Append(@, call)]

\* processObject returns err to its caller, which appends a non-nil err to
\* its allErrors (lines 72-75 and 97-100)
ObjReturn(w, call, err) ==
    /\ mcalls' = [mcalls EXCEPT ![w] =
                    Append(Append(@, call), Call("Return", w, "", err, 0))]
    /\ stack' = [stack EXCEPT ![w][Len(stack[w])].errs =
                    IF err = "nil" THEN @ ELSE Append(@, err)]
    /\ mfail' = [mfail EXCEPT ![w] =
                    IF err # "nil" /\ Len(stack[w]) = 1 THEN @ + 1 ELSE @]
    /\ mpc' = [mpc EXCEPT ![w] = "loop"]
    /\ perr' = [perr EXCEPT ![w] = "nil"]

\* ---- ProcessManifests is called
MPStart(w) ==
    /\ w \in mactive
    /\ mpc[w] = "idle"
    /\ mstarted[w] < MaxCalls
    /\ mstarted' = [mstarted EXCEPT ![w] = @ + 1]
    /\ mpc' = [mpc EXCEPT ![w] = "loop"]
    /\ mman' = [mman EXCEPT ![w] = 0]
    /\ stack' = [stack EXCEPT ![w] = << [docs |-> << >>, errs |-> << >>] >>]
    /\ mcalls' = [mcalls EXCEPT ![w] = << >>]
    /\ mprev' = [mprev EXCEPT ![w] = mret[w]]
    /\ mret' = [mret EXCEPT ![w] = <<"running">>]
    /\ mf0' = [mf0 EXCEPT ![w] = faults]
    /\ mseen' = [mseen EXCEPT ![w] = 0]
    /\ mfail' = [mfail EXCEPT ![w] = 0]
    /\ UNCHANGED <<objs, nextRV, mactive, manifests, obj, perr, faults>>
    /\ UNCHANGED notMP

\* ---- the loops of ProcessManifests (lines 48-79) and of the List branch
\* of processObject (lines 89-103): one document, or the end of a loop
MPLoop(w) ==
    /\ mpc[w] = "loop"
    /\ LET n == Len(stack[w])
           top == stack[w][n]
       IN  IF top.docs = << >> /\ n > 1
           THEN \* a List is done: utilerrors.NewAggregate(allErrors) goes to
                \* the caller
                /\ stack' = [stack EXCEPT ![w] =
                     [SubSeq(stack[w], 1, n - 1) EXCEPT ![n - 1].errs =
                         IF NewAggregate(top.errs) = "nil" THEN @
                         ELSE Append(@, NewAggregate(top.errs))]]
                /\ mfail' = [mfail EXCEPT ![w] =
                     IF NewAggregate(top.errs) # "nil" /\ n = 2 THEN @ + 1
                     ELSE @]
                /\ UNCHANGED <<mpc, mman, obj, mret, mseen>>
           ELSE IF top.docs = << >> /\ mman[w] >= Len(manifests[w])
           THEN \* return utilerrors.NewAggregate(allErrors)
                /\ mret' = [mret EXCEPT ![w] = top.errs]
                /\ mpc' = [mpc EXCEPT ![w] = "idle"]
                /\ obj' = [obj EXCEPT ![w] = NoObj]
                /\ UNCHANGED <<stack, mman, mseen, mfail>>
           ELSE IF top.docs = << >>
           THEN \* the next manifest: skipped unless its name ends in .yaml
                LET man == manifests[w][mman[w] + 1] IN
                /\ mman' = [mman EXCEPT ![w] = @ + 1]
                /\ stack' = [stack EXCEPT ![w][n].docs =
                                IF HasSuffix(man.name, ".yaml") THEN man.docs
                                ELSE << >>]
                /\ UNCHANGED <<mpc, obj, mret, mseen, mfail>>
           ELSE \E i \in RangeNext(n, top.docs) :
                LET d == top.docs[i]
                    rest == Without(top.docs, i)
                IN
                /\ mseen' = [mseen EXCEPT ![w] = @ + 1]
                /\ CASE d.kind = "bad" ->
                          /\ stack' = [stack EXCEPT ![w][n] =
                                [docs |-> AfterDecodeError(rest),
                                 errs |-> Append(top.errs, "decode")]]
                          /\ mfail' = [mfail EXCEPT ![w] = @ + 1]
                          /\ UNCHANGED <<mpc, mman, obj, mret>>
                     [] d.kind = "list" ->
                          /\ stack' = [stack EXCEPT ![w] =
                                Append([stack[w] EXCEPT ![n].docs = rest],
                                       [docs |-> d.items, errs |-> << >>])]
                          /\ UNCHANGED <<mpc, mman, obj, mret, mfail>>
                     [] OTHER ->
                          /\ stack' = [stack EXCEPT ![w][n].docs = rest]
                          /\ obj' = [obj EXCEPT ![w] = addMetadata(d, Component)]
                          /\ mpc' = [mpc EXCEPT ![w] = "pre"]
                          /\ UNCHANGED <<mman, mret, mfail>>
    /\ UNCHANGED <<objs, nextRV, mactive, manifests, perr, mcalls, mprev,
                   mstarted, mf0, faults>>
    /\ UNCHANGED notMP

\* what an injected hook (preProcessObject, processNewObject) returns
HookOutcomes == {"nil"} \cup (IF CanFail THEN {"error"} ELSE {})

PreProcessIgnored(hookErr) == FALSE

\* lines 109-113: a non-nil error of preProcessObject ends processObject
PreProcessFailed(hookErr) == hookErr # "nil"

PostProcessSurfaced(hookErr) == IF hookErr = "nil" THEN "nil" ELSE "hook"

\* lines 136-141: the error of processNewObject is logged, err stays the
\* nil of the Create
PostProcessErr(hookErr) == "nil"

\* ---- processObject: the injected preprocessObject hook (lines 109-113)
MPPre(w) ==
    /\ mpc[w] = "pre"
    /\ \E e \in HookOutcomes :
        /\ faults' = IF e = "nil" THEN faults ELSE faults + 1
        /\ IF PreProcessFailed(e)
           THEN ObjReturn(w, Call("PreHook", w, "", e, 0), "hook")
           ELSE /\ Logged(w, Call("PreHook", w, "", e, 0))
                /\ mpc' = [mpc EXCEPT ![w] = "get"]
                /\ UNCHANGED <<stack, mfail, perr>>
    /\ UNCHANGED <<objs, nextRV, mactive, manifests, mman, obj, mret, mprev,
                   mstarted, mf0, mseen>>
    /\ UNCHANGED notMP

GetErrAsNotFound(err) == FALSE

\* lines 132-133 and 166-170: a Get error that is not NotFound enters neither
\* the create branch nor the patch branch and is returned as it is
GetErrIsFinal(err) == err # "nil" /\ err # "NotFound"

\* ---- processObject: Client.Get and, when the object is found,
\* PatchFactory.CreatePatch (lines 131-146)
MPGet(w) ==
    /\ mpc[w] = "get"
    /\ LET live == objs[obj[w].key] IN
       \/ \* Get fails with an error that is not NotFound
          /\ CanFail
          /\ faults' = faults + 1
          /\ IF GetErrIsFinal("error")
             THEN /\ ObjReturn(w, Call("Get", w, "", "error", 0), "Get:error")
                  /\ UNCHANGED obj
             ELSE /\ Logged(w, Call("Get", w, "", "error", 0))
                  /\ mpc' = [mpc EXCEPT ![w] = "create"]
                  /\ UNCHANGED <<stack, mfail, perr, obj>>
       \/ /\ IsNotFound(live)
          /\ Logged(w, Call("Get", w, "", "NotFound", 0))
          /\ mpc' = [mpc EXCEPT ![w] = "create"]
          /\ UNCHANGED <<stack, mfail, perr, obj, faults>>
       \/ \* found, and CreatePatch fails
          /\ ~IsNotFound(live)
          /\ CanFail
          /\ faults' = faults + 1
          /\ ObjReturn(w, Call("Get", w, "", "found:patcherror", 0),
                       "CreatePatch:error")
          /\ UNCHANGED obj
       \/ /\ ~IsNotFound(live)
          /\ UNCHANGED faults
          /\ IF ApplyNeeded(CreatePatch(live, obj[w]))
             THEN \* the patch carries the live object's resourceVersion
                  /\ Logged(w, Call("Get", w, "", "found:patch", 0))
                  /\ obj' = [obj EXCEPT ![w].rv = live.rv]
                  /\ mpc' = [mpc EXCEPT ![w] = "apply"]
                  /\ UNCHANGED <<stack, mfail, perr>>
             ELSE /\ ObjReturn(w, Call("Get", w, "", "found:nopatch", 0), "nil")
                  /\ UNCHANGED obj
    /\ UNCHANGED <<objs, nextRV, mactive, manifests, mman, mret, mprev,
                   mstarted, mf0, mseen>>
    /\ UNCHANGED notMP

\* the server's answer to a Create of o: a name that exists and an object
\* that carries a resourceVersion are rejected
CreateOutcomes(o) ==
    IF objs[o.key].present THEN {"AlreadyExists"}
    ELSE IF o.rv # 0 THEN {"BadRequest"}
    ELSE {"nil"} \cup (IF CanFail THEN {"error"} ELSE {})

CreateSucceededOrExists(err) == err \in {"nil", "AlreadyExists"}

\* line 135: err == nil after Client.Create; any other err is logged and
\* returned at line 170
CreateSucceeded(err) == err = "nil"

\* ---- processObject: Client.Create of an object that was not found
\* (lines 133-145)
MPCreate(w) ==
    /\ mpc[w] = "create"
    /\ \E o \in CreateOutcomes(obj[w]) :
        /\ IF o = "nil"
           THEN /\ objs' = [objs EXCEPT ![obj[w].key] =
                               Stored(obj[w], "processor")]
                /\ nextRV' = nextRV + 1
           ELSE UNCHANGED <<objs, nextRV>>
        /\ faults' = IF o = "error" THEN faults + 1 ELSE faults
        /\ IF CreateSucceeded(o)
           THEN /\ Logged(w, Call("Create", w, "", o,
                                  IF o = "nil" THEN nextRV ELSE 0))
                /\ mpc' = [mpc EXCEPT ![w] = "post"]
                /\ UNCHANGED <<stack, mfail, perr>>
           ELSE ObjReturn(w, Call("Create", w, "", o, 0), "Create:" \o o)
    /\ UNCHANGED <<mactive, manifests, mman, obj, mret, mprev, mstarted, mf0,
                   mseen>>
    /\ UNCHANGED notMP

\* ---- processObject: the injected processNewObject hook; its error is
\* only logged (lines 136-141)
MPPost(w) ==
    /\ mpc[w] = "post"
    /\ \E e \in HookOutcomes :
        /\ faults' = IF e = "nil" THEN faults ELSE faults + 1
        /\ ObjReturn(w, Call("PostHook", w, "", e, 0), PostProcessErr(e))
    /\ UNCHANGED <<objs, nextRV, mactive, manifests, mman, obj, mret, mprev,
                   mstarted, mf0, mseen>>
    /\ UNCHANGED notMP

\* the server's answer to the patch: a change of the immutable field is
\* rejected as Invalid
ApplyOutcomes(o) ==
    IF ~objs[o.key].present THEN {"NotFound"}
    ELSE (IF objs[o.key].sel # o.sel THEN {"Invalid"} ELSE {"nil"})
         \cup (IF CanFail THEN {"Invalid", "error"} ELSE {})

\* ---- processObject: patch.Apply (lines 147-149)
MPApply(w) ==
    /\ mpc[w] = "apply"
    /\ \E o \in ApplyOutcomes(obj[w]) :
        /\ faults' = IF o \in {"nil", "NotFound"}
                        \/ (o = "Invalid" /\ objs[obj[w].key].sel # obj[w].sel)
                     THEN faults ELSE faults + 1
        /\ IF o = "nil"
           THEN /\ objs' = [objs EXCEPT ![obj[w].key] =
                               Stored(obj[w], objs[obj[w].key].by)]
                /\ nextRV' = nextRV + 1
                /\ ObjReturn(w, Call("Apply", w, "", "nil", nextRV), "nil")
           ELSE IF IsInvalid(o)
           THEN \* patch was invalid, try delete/create
                /\ Logged(w, Call("Apply", w, "", o, 0))
                /\ perr' = [perr EXCEPT ![w] = "Apply:" \o o]
                /\ mpc' = [mpc EXCEPT ![w] = "delete"]
                /\ UNCHANGED <<objs, nextRV, stack, mfail>>
           ELSE /\ ObjReturn(w, Call("Apply", w, "", o, 0), "Apply:" \o o)
                /\ UNCHANGED <<objs, nextRV>>
    /\ UNCHANGED <<mactive, manifests, mman, obj, mret, mprev, mstarted, mf0,
                   mseen>>
    /\ UNCHANGED notMP

\* ---- processObject: the fallback's Client.Delete (lines 152-163)
MPDelete(w) ==
    /\ mpc[w] = "delete"
    /\ \/ /\ objs[obj[w].key].present
          /\ Logged(w, Call("Delete", w, DeletePropagation, "nil", 0))
          /\ objs' = [objs EXCEPT ![obj[w].key] = Absent]
          /\ obj' = [obj EXCEPT ![w] = ClearResourceVersion(@)]
          /\ mpc' = [mpc EXCEPT ![w] = "recreate"]
          /\ UNCHANGED <<stack, mfail, perr, faults>>
       \/ \* deleteErr: err stays the patch error
          /\ objs[obj[w].key].present
          /\ CanFail
          /\ faults' = faults + 1
          /\ ObjReturn(w, Call("Delete", w, DeletePropagation, "error", 0), perr[w])
          /\ UNCHANGED <<objs, obj>>
       \/ /\ ~objs[obj[w].key].present
          /\ ObjReturn(w, Call("Delete", w, DeletePropagation, "NotFound", 0),
                       perr[w])
          /\ UNCHANGED <<objs, obj, faults>>
    /\ UNCHANGED <<nextRV, mactive, manifests, mman, mret, mprev, mstarted,
                   mf0, mseen>>
    /\ UNCHANGED notMP

HookAfterRecreateOk(createErr) == createErr = "nil"

\* lines 155-157: a successful re-Create only logs and clears err;
\* processNewObject is called in the NotFound branch alone (line 137)
HookAfterRecreate(createErr) == FALSE

\* ---- processObject: the fallback's Client.Create (lines 155-160)
MPRecreate(w) ==
    /\ mpc[w] = "recreate"
    /\ \E o \in CreateOutcomes(obj[w]) :
        IF o = "nil"
        THEN /\ objs' = [objs EXCEPT ![obj[w].key] = Stored(obj[w], "processor")]
             /\ nextRV' = nextRV + 1
             /\ UNCHANGED faults
             /\ IF HookAfterRecreate(o)
                THEN /\ Logged(w, Call("Create", w, "", "nil", nextRV))
                     /\ mpc' = [mpc EXCEPT ![w] = "post"]
                     /\ UNCHANGED <<stack, mfail, perr>>
                ELSE ObjReturn(w, Call("Create", w, "", "nil", nextRV),
                               RecreateErr(perr[w], "nil"))
        ELSE /\ faults' = IF o = "error" THEN faults + 1 ELSE faults
             /\ UNCHANGED <<objs, nextRV>>
             /\ ObjReturn(w, Call("Create", w, "", o, 0),
                          RecreateErr(perr[w], "Create:" \o o))
    /\ UNCHANGED <<mactive, manifests, mman, obj, mret, mprev, mstarted, mf0,
                   mseen>>
    /\ UNCHANGED notMP

(***************************************************************************)
(*              PART 3: memberroll.networkPolicyStrategy                   *)
(***************************************************************************)
MaxPasses == 2        \* reconcile/remove calls started in one behaviour

\* strategy.meshNamespace and the member namespaces
MeshNamespace == "istio-system"
Members == {"app1", "app2"}

NPNames == {"p1", "p2", "p3"}
\* the order in which a List returns items
NPOrder == <<"p1", "p2", "p3">>

IsIn(S, n) == n \in S

NoneOf(S) == << >>

SeqOf(S) == SelectSeq(NPOrder, LAMBDA n : IsIn(S, n))

\* a NetworkPolicy: its owner label, its member-of label, and whether it
\* carries the internal annotation
NoNP == [present |-> FALSE, owner |-> "", memberOf |-> "", internal |-> FALSE]
NetPol(o, m, i) == [present |-> TRUE, owner |-> o, memberOf |-> m, internal |-> i]

\* List with MatchingLabels{OwnerKey: meshNamespace} in the mesh namespace
\* (line 38)
OwnedByMesh == {n \in NPNames : nps[MeshNamespace][n].present
                                 /\ nps[MeshNamespace][n].owner = MeshNamespace}

RequiredAll(listed) == listed

\* lines 43-48: the listed policies without the internal annotation
RequiredOf(listed) == {n \in listed : ~nps[MeshNamespace][n].internal}

\* List with MatchingLabels{MemberOfKey: meshNamespace} in a namespace
\* (lines 57 and 124)
MemberPolicies(ns) == {n \in NPNames : nps[ns][n].present
                                        /\ nps[ns][n].memberOf = MeshNamespace}

\* lines 76-83: the copy of a mesh policy, with its labels and annotations
\* and the member-of label
CopyOf(item) == [item.obj EXCEPT !.memberOf = MeshNamespace]

\* the items a List of namespace ns returns for the names S: each name
\* with the object as it is when the List is served
ListOf(ns, S) ==
    [i \in DOMAIN SeqOf(S) |-> [name |-> SeqOf(S)[i], obj |-> nps[ns][SeqOf(S)[i]]]]

NeedsCreateNever(name, required, existing) == FALSE

\* lines 70-74: a listed policy is created when it is required and the
\* namespace does not have it
NeedsCreate(name, required, existing) ==
    name \in required /\ name \notin existing

ObsoleteAll(existing, required) == existing

\* line 97: existingNetworkPolicies.Difference(s.requiredNetworkPolicies)
Obsolete(existing, required) == existing \ required

StopAfterError(items) == << >>

\* lines 87-90: a failed Create is recorded and the loop goes on
AfterCreateError(items) == Tail(items)

NCall(op, ns, name, res, names) ==
    [op |-> op, ns |-> ns, name |-> name, res |-> res, names |-> names]

NLogged(w, c) == ncalls' = [ncalls EXCEPT ![w] = Append(@, c)]

\* ---- newNetworkPolicyStrategy (lines 27-50)
NPNew(w) ==
    /\ w \in nactive
    /\ npc[w] = "none"
    /\ \/ /\ slist' = [slist EXCEPT ![w] = ListOf(MeshNamespace, OwnedByMesh)]
          /\ srequired' = [srequired EXCEPT ![w] = RequiredOf(OwnedByMesh)]
          /\ npc' = [npc EXCEPT ![w] = "idle"]
          /\ UNCHANGED faults
       \/ \* the List fails: no strategy is returned
          /\ CanFail
          /\ faults' = faults + 1
          /\ UNCHANGED <<slist, srequired, npc>>
    /\ UNCHANGED <<nps, nactive, nns, nkind, nexisting, nadded, nitems, ndel,
                   nerrs, ncalls, nret, nprev, npasses>>
    /\ UNCHANGED notNP

\* a method of the strategy is entered
NBegin(w, ns, kind) ==
    /\ w \in nactive
    /\ npc[w] = "idle"
    /\ nns' = [nns EXCEPT ![w] = ns]
    /\ nkind' = [nkind EXCEPT ![w] = kind]
    /\ nprev' = [nprev EXCEPT ![w] =
                    [ret |-> nret[w], ns |-> nns[w], kind |-> nkind[w]]]
    /\ nadded' = [nadded EXCEPT ![w] = {}]
    /\ ndel' = [ndel EXCEPT ![w] = {}]
    /\ UNCHANGED <<nps, nactive, slist, srequired>>

\* a method of the strategy is called by the member roll controller
NEnter(w, ns, kind) ==
    /\ NBegin(w, ns, kind)
    /\ npasses < MaxPasses
    /\ npasses' = npasses + 1

\* reconcileNamespaceInMesh: the List of the namespace (lines 52-67)
ReconcileList(w, ns) ==
    \/ /\ ncalls' = [ncalls EXCEPT ![w] =
               << NCall("List", ns, "", "nil", MemberPolicies(ns)) >>]
       /\ nexisting' = [nexisting EXCEPT ![w] = MemberPolicies(ns)]
       /\ nitems' = [nitems EXCEPT ![w] = slist[w]]
       /\ nerrs' = [nerrs EXCEPT ![w] = << >>]
       /\ nret' = [nret EXCEPT ![w] = <<"running">>]
       /\ npc' = [npc EXCEPT ![w] = "add"]
       /\ UNCHANGED faults
    \/ \* return err
       /\ CanFail
       /\ faults' = faults + 1
       /\ ncalls' = [ncalls EXCEPT ![w] = << NCall("List", ns, "", "error", {}) >>]
       /\ nret' = [nret EXCEPT ![w] = <<"List:error">>]
       /\ nexisting' = [nexisting EXCEPT ![w] = {}]
       /\ nitems' = [nitems EXCEPT ![w] = << >>]
       /\ nerrs' = [nerrs EXCEPT ![w] = << >>]
       /\ UNCHANGED npc

\* ---- reconcileNamespaceInMesh is called
NPReconcile(w) ==
    \E ns \in Members :
        /\ NEnter(w, ns, "reconcile")
        /\ ReconcileList(w, ns)
        /\ UNCHANGED notNP

\* ---- reconcileNamespaceInMesh: one iteration of the loop over the mesh's
\* policies, or its end (lines 68-94)
NPAdd(w) ==
    /\ npc[w] = "add"
    /\ IF nitems[w] = << >>
       THEN /\ nexisting' = [nexisting EXCEPT ![w] = @ \cup nadded[w]]
            /\ ndel' = [ndel EXCEPT ![w] =
                            Obsolete(nexisting[w] \cup nadded[w], srequired[w])]
            /\ npc' = [npc EXCEPT ![w] = "del"]
            /\ UNCHANGED <<nps, nadded, nitems, nerrs, ncalls, faults>>
       ELSE LET name == Head(nitems[w]).name IN
            IF ~NeedsCreate(name, srequired[w], nexisting[w])
            THEN /\ nitems' = [nitems EXCEPT ![w] = Tail(@)]
                 /\ UNCHANGED <<nps, nadded, nerrs, ncalls, faults, nexisting,
                                ndel, npc>>
            ELSE \/ /\ ~nps[nns[w]][name].present
                    /\ nps' = [nps EXCEPT ![nns[w]][name] = CopyOf(Head(nitems[w]))]
                    /\ nadded' = [nadded EXCEPT ![w] = @ \cup {name}]
                    /\ nitems' = [nitems EXCEPT ![w] = Tail(@)]
                    /\ NLogged(w, NCall("Create", nns[w], name, "nil", {}))
                    /\ UNCHANGED <<nerrs, faults, nexisting, ndel, npc>>
                 \/ /\ nps[nns[w]][name].present
                    /\ nitems' = [nitems EXCEPT ![w] = AfterCreateError(@)]
                    /\ nerrs' = [nerrs EXCEPT ![w] = Append(@, "Create:AlreadyExists")]
                    /\ NLogged(w, NCall("Create", nns[w], name, "AlreadyExists", {}))
                    /\ UNCHANGED <<nps, nadded, faults, nexisting, ndel, npc>>
                 \/ /\ CanFail
                    /\ faults' = faults + 1
                    /\ nitems' = [nitems EXCEPT ![w] = AfterCreateError(@)]
                    /\ nerrs' = [nerrs EXCEPT ![w] = Append(@, "Create:error")]
                    /\ NLogged(w, NCall("Create", nns[w], name, "error", {}))
                    /\ UNCHANGED <<nps, nadded, nexisting, ndel, npc>>
    /\ UNCHANGED <<nactive, slist, srequired, nns, nkind, nret, nprev, npasses>>
    /\ UNCHANGED notNP

\* the server's answer to the Delete of a NetworkPolicy: one that is no
\* longer there is answered NotFound or Gone
DeleteOutcomes(ns, name) ==
    (IF nps[ns][name].present THEN {"nil"} ELSE {"NotFound", "Gone"})
    \cup (IF CanFail THEN {"error"} ELSE {})

DeleteIsErrorStrict(err) == err # "nil"

\* line 106: err != nil && !(errors.IsNotFound(err) || errors.IsGone(err))
DeleteIsError(err) == err # "nil" /\ ~(err = "NotFound" \/ err = "Gone")

\* ---- reconcileNamespaceInMesh: one iteration of the loop over the
\* obsolete names, a Go map visited in any order, or the return (lines
\* 97-115)
NPDel(w) ==
    /\ npc[w] = "del"
    /\ IF ndel[w] = {}
       THEN /\ nret' = [nret EXCEPT ![w] = nerrs[w]]
            /\ npc' = [npc EXCEPT ![w] = "idle"]
            /\ UNCHANGED <<nps, ndel, nerrs, ncalls, faults>>
       ELSE \E name \in ndel[w] :
            /\ ndel' = [ndel EXCEPT ![w] = @ \ {name}]
            /\ UNCHANGED <<nret, npc>>
            /\ \E o \in DeleteOutcomes(nns[w], name) :
                  /\ nps' = IF o = "nil"
                            THEN [nps EXCEPT ![nns[w]][name] = NoNP]
                            ELSE nps
                  /\ faults' = IF o = "error" THEN faults + 1 ELSE faults
                  /\ nerrs' = IF DeleteIsError(o)
                              THEN [nerrs EXCEPT ![w] = Append(@, "Delete:" \o o)]
                              ELSE nerrs
                  /\ NLogged(w, NCall("Delete", nns[w], name, o, {}))
    /\ UNCHANGED <<nactive, slist, srequired, nns, nkind, nexisting, nadded,
                   nitems, nprev, npasses>>
    /\ UNCHANGED notNP

\* removeNamespaceFromMesh: the List of the namespace (lines 118-125 and
\* 134-138)
RemoveList(w, ns) ==
    /\ nexisting' = [nexisting EXCEPT ![w] = {}]
    /\ nerrs' = [nerrs EXCEPT ![w] = << >>]
    /\ \/ /\ ncalls' = [ncalls EXCEPT ![w] =
                 << NCall("List", ns, "", "nil", MemberPolicies(ns)) >>]
          /\ nitems' = [nitems EXCEPT ![w] = ListOf(ns, MemberPolicies(ns))]
          /\ nret' = [nret EXCEPT ![w] = <<"running">>]
          /\ npc' = [npc EXCEPT ![w] = "rm"]
          /\ UNCHANGED faults
       \/ \* the List's error is the only element of the aggregate
          /\ CanFail
          /\ faults' = faults + 1
          /\ ncalls' = [ncalls EXCEPT ![w] = << NCall("List", ns, "", "error", {}) >>]
          /\ nret' = [nret EXCEPT ![w] = <<"List:error">>]
          /\ nitems' = [nitems EXCEPT ![w] = << >>]
          /\ UNCHANGED npc

\* ---- removeNamespaceFromMesh is called
NPRemove(w) ==
    \E ns \in Members :
        /\ NEnter(w, ns, "remove")
        /\ RemoveList(w, ns)
        /\ UNCHANGED notNP

\* ---- removeNamespaceFromMesh: one iteration of the loop over the listed
\* policies, or the return (lines 126-138)
NPRm(w) ==
    /\ npc[w] = "rm"
    /\ IF nitems[w] = << >>
       THEN /\ nret' = [nret EXCEPT ![w] = nerrs[w]]
            /\ npc' = [npc EXCEPT ![w] = "idle"]
            /\ UNCHANGED <<nps, nitems, nerrs, ncalls, faults>>
       ELSE LET name == Head(nitems[w]).name IN
            /\ nitems' = [nitems EXCEPT ![w] = Tail(@)]
            /\ UNCHANGED <<nret, npc>>
            /\ \/ /\ nps[nns[w]][name].present
                  /\ nps' = [nps EXCEPT ![nns[w]][name] = NoNP]
                  /\ NLogged(w, NCall("Delete", nns[w], name, "nil", {}))
                  /\ UNCHANGED <<nerrs, faults>>
               \/ /\ ~nps[nns[w]][name].present
                  /\ nerrs' = [nerrs EXCEPT ![w] = Append(@, "Delete:NotFound")]
                  /\ NLogged(w, NCall("Delete", nns[w], name, "NotFound", {}))
                  /\ UNCHANGED <<nps, faults>>
               \/ /\ CanFail
                  /\ faults' = faults + 1
                  /\ nerrs' = [nerrs EXCEPT ![w] = Append(@, "Delete:error")]
                  /\ NLogged(w, NCall("Delete", nns[w], name, "error", {}))
                  /\ UNCHANGED nps
    /\ UNCHANGED <<nactive, slist, srequired, nns, nkind, nexisting, nadded,
                   ndel, nprev, npasses>>
    /\ UNCHANGED notNP

\* ---- the owner of the mesh deletes one of the mesh namespace's
\* NetworkPolicies after a strategy has listed them (line 38)
MeshPolicyDeleted ==
    /\ \E w \in nactive : npc[w] # "none"
    /\ \E n \in {Head(NPOrder)} :
          /\ nps[MeshNamespace][n].present
          /\ nps' = [nps EXCEPT ![MeshNamespace][n] = NoNP]
    /\ UNCHANGED <<nactive, npc, slist, srequired, nns, nkind, nexisting,
                   nadded, nitems, ndel, nerrs, ncalls, nret, nprev, npasses,
                   faults>>
    /\ UNCHANGED notNP

\* ---- another worker deletes a NetworkPolicy of a member namespace that
\* a running reconcile pass has listed and does not require (between the
\* List of line 57 and the Delete of line 105)
MemberPolicyRemoved ==
    /\ \E w \in nactive :
          /\ npc[w] \in {"add", "del"}
          /\ \E n \in nexisting[w] \ srequired[w] :
                /\ nps[nns[w]][n].present
                /\ nps' = [nps EXCEPT ![nns[w]][n] = NoNP]
    /\ UNCHANGED <<nactive, npc, slist, srequired, nns, nkind, nexisting,
                   nadded, nitems, ndel, nerrs, ncalls, nret, nprev, npasses,
                   faults>>
    /\ UNCHANGED notNP

(***************************************************************************)
(*              PART 4: memberroll.namespaceReconciler                     *)
(* The reconciler delegates the NetworkPolicies of a namespace to its      *)
(* networking strategy, here the networkPolicyStrategy of PART 3.  Of the  *)
(* reconciler's own client calls, the Get of the namespace and the Create  *)
(* and Delete of RoleBindings may fail.                                    *)
(***************************************************************************)
RBNames == {"rb1", "rb2"}
RBOrder == <<"rb1", "rb2">>
SeqOfRB(S) == SelectSeq(RBOrder, LAMBDA n : IsIn(S, n))

\* a RoleBinding: its member-of label, whether it is marked internal, its
\* content, and who created it
NoRB == [present |-> FALSE, memberOf |-> "", internal |-> FALSE, body |-> 0,
         by |-> ""]
RoleBinding(m, i, b, by) ==
    [present |-> TRUE, memberOf |-> m, internal |-> i, body |-> b, by |-> by]

MeshRoleBindings == {n \in RBNames : rbs[MeshNamespace][n].present}

RequiredRoleBindings(listed) == {n \in listed : ~rbs[MeshNamespace][n].internal}

MemberRoleBindings(ns) ==
    {n \in RBNames : rbs[ns][n].present /\ rbs[ns][n].memberOf = MeshNamespace}

\* the mesh RoleBindings as a List returns them: name and object
ListedRoleBindings ==
    [i \in 1..Len(SeqOfRB(MeshRoleBindings)) |->
        [name |-> SeqOfRB(MeshRoleBindings)[i],
         obj |-> rbs[MeshNamespace][SeqOfRB(MeshRoleBindings)[i]]]]

BlankCopy(rb) ==
    [rb EXCEPT !.memberOf = MeshNamespace, !.by = "reconciler", !.body = 0]

\* the copy of a listed mesh RoleBinding, stamped with the member-of label
RBCopyOf(rb) == [rb EXCEPT !.memberOf = MeshNamespace, !.by = "reconciler"]

OtherMeshAllowed(label) == TRUE

\* a namespace may be reconciled unless it is labeled as a member of
\* another mesh
MayJoin(label) == label \in {"", MeshNamespace}

KeepObsolete(existing, required) == {}

\* the previously copied RoleBindings that are no longer required
ObsoleteRoleBindings(existing, required) == existing \ required

KeepLabel(label) == label

\* the namespace's member-of label after removal from the mesh
Unlabeled(label) == IF label = MeshNamespace THEN "" ELSE label

NSCall(op, kind, name, res) == [op |-> op, kind |-> kind, name |-> name, res |-> res]

NSLogged(w, c) == nscalls' = [nscalls EXCEPT ![w] = Append(@, c)]

\* ---- newNamespaceReconciler: the mesh's RoleBindings are listed and the
\* networking strategy is constructed.  A reconciler serves one call and is
\* constructed anew for the next (test lines 194-222).
NSNew(w) ==
    /\ w \in nsactive
    /\ nspc[w] = "none"
    /\ rblist' = [rblist EXCEPT ![w] = ListedRoleBindings]
    /\ rbrequired' = [rbrequired EXCEPT ![w] = RequiredRoleBindings(MeshRoleBindings)]
    /\ slist' = [slist EXCEPT ![w] = ListOf(MeshNamespace, OwnedByMesh)]
    /\ srequired' = [srequired EXCEPT ![w] = RequiredOf(OwnedByMesh)]
    /\ npc' = [npc EXCEPT ![w] = "idle"]
    /\ nspc' = [nspc EXCEPT ![w] = "idle"]
    /\ sinvoked' = [sinvoked EXCEPT ![w] = << >>]
    /\ UNCHANGED faults
    /\ UNCHANGED <<nslabel, rbs, nad, nsactive, nsns, nskind, nsexisting,
                   nsadded, nsitems, nsdel, nserrs, nscalls, nsret>>
    /\ UNCHANGED <<nps, nactive, nns, nkind, nexisting, nadded, nitems, ndel,
                   nerrs, ncalls, nret, nprev, npasses>>
    /\ UNCHANGED notNS

\* a method of the reconciler is called
NSEnter(w, ns, kind) ==
    /\ w \in nsactive
    /\ nspc[w] = "idle"
    /\ npasses < MaxPasses
    /\ npasses' = npasses + 1
    /\ nsns' = [nsns EXCEPT ![w] = ns]
    /\ nskind' = [nskind EXCEPT ![w] = kind]
    /\ nserrs' = [nserrs EXCEPT ![w] = << >>]
    /\ nsadded' = [nsadded EXCEPT ![w] = {}]
    /\ nsdel' = [nsdel EXCEPT ![w] = {}]
    /\ nsexisting' = [nsexisting EXCEPT ![w] = {}]
    /\ UNCHANGED <<nslabel, rbs, nad, nsactive, rblist, rbrequired, sinvoked>>
    /\ UNCHANGED <<nps, nactive, npc, slist, srequired, nns, nkind, nexisting,
                   nadded, nitems, ndel, nerrs, ncalls, nret, nprev>>
    /\ UNCHANGED notNS

\* ---- reconcileNamespaceInMesh: the namespace is fetched and its
\* member-of label is checked
NSReconcile(w) ==
    \E ns \in Members :
        /\ NSEnter(w, ns, "reconcile")
        /\ nsitems' = [nsitems EXCEPT ![w] = << >>]
        /\ \/ /\ CanFail
              /\ faults' = faults + 1
              /\ nscalls' = [nscalls EXCEPT ![w] =
                     << NSCall("Get", "Namespace", ns, "error") >>]
              /\ nsret' = [nsret EXCEPT ![w] = <<"Get:error">>]
              /\ nspc' = [nspc EXCEPT ![w] = "none"]
           \/ /\ ~MayJoin(nslabel[ns])
              /\ nscalls' = [nscalls EXCEPT ![w] =
                     << NSCall("Get", "Namespace", ns, "nil") >>]
              /\ nsret' = [nsret EXCEPT ![w] = <<"AlreadyMember">>]
              /\ nspc' = [nspc EXCEPT ![w] = "none"]
              /\ UNCHANGED faults
           \/ /\ MayJoin(nslabel[ns])
              /\ nscalls' = [nscalls EXCEPT ![w] =
                     << NSCall("Get", "Namespace", ns, "nil") >>]
              /\ nsret' = [nsret EXCEPT ![w] = <<"running">>]
              /\ nspc' = [nspc EXCEPT ![w] = "label"]
              /\ UNCHANGED faults

\* ---- reconcileNamespaceInMesh: the namespace is labeled as a member
NSLabel(w) ==
    /\ nspc[w] = "label"
    /\ nspc' = [nspc EXCEPT ![w] = "nad"]
    /\ IF nslabel[nsns[w]] = MeshNamespace
       THEN UNCHANGED <<nslabel, nscalls>>
       ELSE /\ nslabel' = [nslabel EXCEPT ![nsns[w]] = MeshNamespace]
            /\ NSLogged(w, NSCall("Update", "Namespace", nsns[w], "nil"))
    /\ UNCHANGED <<rbs, nad, nsactive, nsns, nskind, rblist, rbrequired,
                   nsexisting, nsadded, nsitems, nsdel, nserrs, nsret, sinvoked>>
    /\ UNCHANGED <<npVars, faults>>
    /\ UNCHANGED notNS

\* ---- reconcileNamespaceInMesh: the NetworkAttachmentDefinition is
\* created if the namespace lacks it, and the namespace's member-of-labeled
\* RoleBindings are listed
NSNad(w) ==
    /\ nspc[w] = "nad"
    /\ nspc' = [nspc EXCEPT ![w] = "rbadd"]
    /\ IF nad[nsns[w]]
       THEN UNCHANGED <<nad, nscalls>>
       ELSE /\ nad' = [nad EXCEPT ![nsns[w]] = TRUE]
            /\ NSLogged(w, NSCall("Create", "NetworkAttachmentDefinition",
                                  nsns[w], "nil"))
    /\ nsexisting' = [nsexisting EXCEPT ![w] = MemberRoleBindings(nsns[w])]
    /\ nsitems' = [nsitems EXCEPT ![w] = rblist[w]]
    /\ UNCHANGED <<nslabel, rbs, nsactive, nsns, nskind, rblist, rbrequired,
                   nsadded, nsdel, nserrs, nsret, sinvoked>>
    /\ UNCHANGED <<npVars, faults>>
    /\ UNCHANGED notNS

\* ---- reconcileNamespaceInMesh: one required RoleBinding is copied into
\* the namespace if it is not already there, or the loop ends
NSRbAdd(w) ==
    /\ nspc[w] = "rbadd"
    /\ IF nsitems[w] = << >>
       THEN /\ nsdel' = [nsdel EXCEPT ![w] =
                  ObsoleteRoleBindings(nsexisting[w] \cup nsadded[w], rbrequired[w])]
            /\ nspc' = [nspc EXCEPT ![w] = "rbdel"]
            /\ UNCHANGED <<rbs, nsadded, nsitems, nserrs, nscalls, faults>>
       ELSE LET name == Head(nsitems[w]).name
                listed == Head(nsitems[w]).obj IN
            /\ nsitems' = [nsitems EXCEPT ![w] = Tail(@)]
            /\ UNCHANGED <<nsdel, nspc>>
            /\ IF ~NeedsCreate(name, rbrequired[w], nsexisting[w])
               THEN UNCHANGED <<rbs, nsadded, nserrs, nscalls, faults>>
               ELSE \/ /\ ~rbs[nsns[w]][name].present
                       /\ rbs' = [rbs EXCEPT ![nsns[w]][name] = RBCopyOf(listed)]
                       /\ nsadded' = [nsadded EXCEPT ![w] = @ \cup {name}]
                       /\ NSLogged(w, NSCall("Create", "RoleBinding", name, "nil"))
                       /\ UNCHANGED <<nserrs, faults>>
                    \/ /\ rbs[nsns[w]][name].present
                       /\ nserrs' = [nserrs EXCEPT ![w] =
                                        Append(@, "Create:AlreadyExists")]
                       /\ NSLogged(w, NSCall("Create", "RoleBinding", name,
                                             "AlreadyExists"))
                       /\ UNCHANGED <<rbs, nsadded, faults>>
                    \/ /\ CanFail
                       /\ faults' = faults + 1
                       /\ nserrs' = [nserrs EXCEPT ![w] = Append(@, "Create:error")]
                       /\ NSLogged(w, NSCall("Create", "RoleBinding", name, "error"))
                       /\ UNCHANGED <<rbs, nsadded>>
    /\ UNCHANGED <<nslabel, nad, nsactive, nsns, nskind, rblist, rbrequired,
                   nsexisting, nsret, sinvoked>>
    /\ UNCHANGED npVars
    /\ UNCHANGED notNS

\* ---- reconcileNamespaceInMesh: one obsolete copy is deleted, or the loop
\* ends
NSRbDel(w) ==
    /\ nspc[w] = "rbdel"
    /\ IF nsdel[w] = {}
       THEN /\ nspc' = [nspc EXCEPT ![w] = "strategy"]
            /\ UNCHANGED <<rbs, nsdel, nserrs, nscalls, faults>>
       ELSE \E name \in nsdel[w] :
            /\ nsdel' = [nsdel EXCEPT ![w] = @ \ {name}]
            /\ UNCHANGED nspc
            /\ \/ /\ rbs' = [rbs EXCEPT ![nsns[w]][name] = NoRB]
                  /\ NSLogged(w, NSCall("Delete", "RoleBinding", name, "nil"))
                  /\ UNCHANGED <<nserrs, faults>>
               \/ /\ CanFail
                  /\ faults' = faults + 1
                  /\ nserrs' = [nserrs EXCEPT ![w] = Append(@, "Delete:error")]
                  /\ NSLogged(w, NSCall("Delete", "RoleBinding", name, "error"))
                  /\ UNCHANGED rbs
    /\ UNCHANGED <<nslabel, nad, nsactive, nsns, nskind, rblist, rbrequired,
                   nsexisting, nsadded, nsitems, nsret, sinvoked>>
    /\ UNCHANGED npVars
    /\ UNCHANGED notNS

\* ---- the networking strategy's method is invoked with the namespace; the
\* strategy records the invocation (fakeNetworkStrategy, test lines
\* 240-248) and runs its List
NSStrategy(w) ==
    /\ nspc[w] = "strategy"
    /\ NBegin(w, nsns[w], nskind[w])
    /\ IF nskind[w] = "reconcile"
       THEN ReconcileList(w, nsns[w])
       ELSE RemoveList(w, nsns[w])
    /\ sinvoked' = [sinvoked EXCEPT ![w] =
                       Append(@, [method |-> nskind[w], ns |-> nsns[w]])]
    /\ NSLogged(w, NSCall("Strategy", nskind[w], nsns[w], "nil"))
    /\ nspc' = [nspc EXCEPT ![w] = "wait"]
    /\ UNCHANGED <<nslabel, rbs, nad, nsactive, nsns, nskind, rblist, rbrequired,
                   nsexisting, nsadded, nsitems, nsdel, nserrs, nsret>>
    /\ UNCHANGED npasses
    /\ UNCHANGED notNS

\* ---- the strategy has returned: the reconciler returns the aggregate of
\* its own errors and the strategy's
NSReturn(w) ==
    /\ nspc[w] = "wait"
    /\ npc[w] = "idle"
    /\ nsret' = [nsret EXCEPT ![w] =
                    nserrs[w] \o (IF nret[w] = << >> THEN << >> ELSE <<"strategy">>)]
    /\ nspc' = [nspc EXCEPT ![w] = "none"]
    /\ UNCHANGED <<nslabel, rbs, nad, nsactive, nsns, nskind, rblist, rbrequired,
                   nsexisting, nsadded, nsitems, nsdel, nserrs, nscalls, sinvoked>>
    /\ UNCHANGED <<npVars, faults>>
    /\ UNCHANGED notNS

\* ---- removeNamespaceFromMesh: the namespace's member-of-labeled
\* RoleBindings are listed
NSRemove(w) ==
    \E ns \in Members :
        /\ NSEnter(w, ns, "remove")
        /\ nsitems' = [nsitems EXCEPT ![w] = SeqOfRB(MemberRoleBindings(ns))]
        /\ nscalls' = [nscalls EXCEPT ![w] =
               << NSCall("List", "RoleBinding", ns, "nil") >>]
        /\ nsret' = [nsret EXCEPT ![w] = <<"running">>]
        /\ nspc' = [nspc EXCEPT ![w] = "xrb"]
        /\ UNCHANGED faults

\* ---- removeNamespaceFromMesh: one listed RoleBinding is deleted, or the
\* loop ends
NSRmRb(w) ==
    /\ nspc[w] = "xrb"
    /\ IF nsitems[w] = << >>
       THEN /\ nspc' = [nspc EXCEPT ![w] = "xnad"]
            /\ UNCHANGED <<rbs, nsitems, nserrs, nscalls, faults>>
       ELSE LET name == Head(nsitems[w]) IN
            /\ nsitems' = [nsitems EXCEPT ![w] = Tail(@)]
            /\ UNCHANGED nspc
            /\ \/ /\ rbs' = [rbs EXCEPT ![nsns[w]][name] = NoRB]
                  /\ NSLogged(w, NSCall("Delete", "RoleBinding", name, "nil"))
                  /\ UNCHANGED <<nserrs, faults>>
               \/ /\ CanFail
                  /\ faults' = faults + 1
                  /\ nserrs' = [nserrs EXCEPT ![w] = Append(@, "Delete:error")]
                  /\ NSLogged(w, NSCall("Delete", "RoleBinding", name, "error"))
                  /\ UNCHANGED rbs
    /\ UNCHANGED <<nslabel, nad, nsactive, nsns, nskind, rblist, rbrequired,
                   nsexisting, nsadded, nsdel, nsret, sinvoked>>
    /\ UNCHANGED npVars
    /\ UNCHANGED notNS

\* ---- removeNamespaceFromMesh: the NetworkAttachmentDefinition is deleted
\* and the member-of label is removed from the namespace
NSUnlabel(w) ==
    /\ nspc[w] = "xnad"
    /\ nspc' = [nspc EXCEPT ![w] = "strategy"]
    /\ nad' = [nad EXCEPT ![nsns[w]] = FALSE]
    /\ nslabel' = [nslabel EXCEPT ![nsns[w]] = Unlabeled(@)]
    /\ nscalls' = [nscalls EXCEPT ![w] =
           @ \o (IF nad[nsns[w]]
                 THEN << NSCall("Delete", "NetworkAttachmentDefinition", nsns[w], "nil") >>
                 ELSE << >>)
             \o (IF Unlabeled(nslabel[nsns[w]]) # nslabel[nsns[w]]
                 THEN << NSCall("Update", "Namespace", nsns[w], "nil") >>
                 ELSE << >>)]
    /\ UNCHANGED <<rbs, nsactive, nsns, nskind, rblist, rbrequired, nsexisting,
                   nsadded, nsitems, nsdel, nserrs, nsret, sinvoked>>
    /\ UNCHANGED <<npVars, faults>>
    /\ UNCHANGED notNS

\* ---- a RoleBinding of the mesh namespace is deleted while no reconciler
\* is running (test line 157)
MeshRoleBindingDeleted ==
    /\ \A w \in Workers : nspc[w] \in {"none", "idle"}
    /\ \E n \in RBNames :
          /\ rbs[MeshNamespace][n].present
          /\ rbs' = [rbs EXCEPT ![MeshNamespace][n] = NoRB]
    /\ UNCHANGED <<nslabel, nad, nsactive, nspc, nsns, nskind, rblist, rbrequired,
                   nsexisting, nsadded, nsitems, nsdel, nserrs, nscalls, nsret,
                   sinvoked>>
    /\ UNCHANGED <<npVars, faults>>
    /\ UNCHANGED notNS

(***************************************************************************)
(*              PART 5: controlplane.ControlPlaneReconciler.Delete         *)
(* prune is a collaborator: it returns nil or an error.  Each worker       *)
(* deletes a control plane of its own.                                     *)
(***************************************************************************)
MaxDeletes == 2       \* Delete calls started in one behaviour

PruneErrors == {"nil", "timeout", "forbidden"}

Event(type, reason, message) == [type |-> type, reason |-> reason, message |-> message]

Recorded(w, e) == devents' = [devents EXCEPT ![w] = Append(@, e)]

TerminalAlwaysNormal(err) ==
    Event("Normal", "ServiceMeshDeleted", "Successfully deleted service mesh components")

\* lines 158-164: the event the deferred function emits
TerminalEvent(err) ==
    IF err = "nil"
    THEN Event("Normal", "ServiceMeshDeleted",
               "Successfully deleted service mesh components")
    ELSE Event("Warning", "ServiceMeshDeleted",
               <<"Error occurred during service mesh deletion: %s", err>>)

\* ---- Delete is called: line 156, the "ServiceMeshDeleting" event
DelBegin(w) ==
    /\ dpc[w] = "idle"
    /\ deletes < MaxDeletes
    /\ deletes' = deletes + 1
    /\ devents' = [devents EXCEPT ![w] =
           << Event("Normal", "ServiceMeshDeleting", "Deleting service mesh") >>]
    /\ derr' = [derr EXCEPT ![w] = "unset"]
    /\ dret' = [dret EXCEPT ![w] = "none"]
    /\ dpc' = [dpc EXCEPT ![w] = "deleting"]
    /\ UNCHANGED notDel

\* ---- line 157: r.prune(-1) is entered
DelPrune(w) ==
    /\ dpc[w] = "deleting"
    /\ dpc' = [dpc EXCEPT ![w] = "pruning"]
    /\ UNCHANGED <<derr, dret, devents, deletes>>
    /\ UNCHANGED notDel

\* ---- line 157: prune returns and err is assigned; the deferred function
\* is registered (line 158)
DelPruned(w) ==
    /\ dpc[w] = "pruning"
    /\ \E e \in PruneErrors : derr' = [derr EXCEPT ![w] = e]
    /\ dpc' = [dpc EXCEPT ![w] = "pruned"]
    /\ UNCHANGED <<dret, devents, deletes>>
    /\ UNCHANGED notDel

\* ---- line 165: return err; the result is set before the deferred
\* function runs
DelReturn(w) ==
    /\ dpc[w] = "pruned"
    /\ dret' = [dret EXCEPT ![w] = derr[w]]
    /\ dpc' = [dpc EXCEPT ![w] = "deferred"]
    /\ UNCHANGED <<derr, devents, deletes>>
    /\ UNCHANGED notDel

\* ---- lines 158-164: the deferred function emits the terminal event, and
\* Delete has returned
DelDeferred(w) ==
    /\ dpc[w] = "deferred"
    /\ Recorded(w, TerminalEvent(derr[w]))
    /\ dpc' = [dpc EXCEPT ![w] = "idle"]
    /\ UNCHANGED <<derr, dret, deletes>>
    /\ UNCHANGED notDel

(***************************************************************************)
(*          PART 6: hacks.SkipReconciliationUntilCacheSynced               *)
(***************************************************************************)
MaxClock == 3         \* seconds the clock advances in one behaviour

\* the objects whose reconciliation may be postponed
NamespacedNames == {"istio-system/basic", "istio-system/default", "app1/default"}

\* an entry of the map, and the absence of one
Entry(t) == [set |-> TRUE, at |-> t]
NoEntry == [set |-> FALSE, at |-> 0]

SkipNow(now) == Entry(now)

\* line 33: time.Now().Add(2 * time.Second)
SkipUntil(now) == Entry(now + 2)

\* the contexts the function is called with: one that WrapContext (lines
\* 15-17) has put the map into, and one without it
Contexts == {"wrapped", "bare"}

\* ---- SkipReconciliationUntilCacheSynced(ctx, namespacedName), lines 27-34
SkipReconciliationUntilCacheSynced(ctx, namespacedName) ==
    /\ ~hpanic
    /\ IF ctx = "wrapped"
       THEN /\ earliest' = [earliest EXCEPT ![namespacedName] = SkipUntil(clock)]
            /\ UNCHANGED hpanic
       ELSE \* line 31: panic
            /\ hpanic' = TRUE
            /\ UNCHANGED earliest
    /\ UNCHANGED clock
    /\ UNCHANGED notSkip

\* ---- a second passes
Tick ==
    /\ ~hpanic
    /\ clock < MaxClock
    /\ clock' = clock + 1
    /\ UNCHANGED <<earliest, hpanic>>
    /\ UNCHANGED notSkip

(***************************************************************************)
(*          PART 7: hacks.RemoveTypeObjectFieldsFromCRDSchema              *)
(* A pointer is a sequence of at most one element, << >> for nil; an       *)
(* array is a sequence; a map is a function of its keys.                   *)
(***************************************************************************)
MaxDepth == 2         \* nesting of the schemas a CRD is drawn with
MaxRemovals == 2      \* calls of the function on one CRD

\* JSONSchemaProps.Type values of the schemas that have children, and of
\* those that have none: "" is a schema without a type
Types == {"object", "string"}
LeafTypes == Types \cup {""}

\* a JSONSchemaProps without children
Leaf(t) ==
    [type |-> t, description |-> "d", oneOf |-> << >>, anyOf |-> << >>,
     allOf |-> << >>, properties |-> << >>, patternProperties |-> << >>,
     definitions |-> << >>, not |-> << >>, items |-> << >>,
     additionalProperties |-> << >>, additionalItems |-> << >>,
     dependencies |-> << >>]

\* the places of a JSONSchemaProps that hold schemas
Slots == {"oneOf", "anyOf", "allOf", "properties", "patternProperties",
          "definitions", "not", "items.schema", "items.jsonSchemas",
          "additionalProperties", "additionalItems", "dependencies"}

\* an array and a map of two schemas: kid and a schema of type object
ArrayOf(kid) == <<kid, Leaf("object")>>
MapOf(kid) == [k \in {"a", "b"} |-> IF k = "a" THEN kid ELSE Leaf("object")]

\* node with one of its places holding kid
Populate(node, slot, kid) ==
    CASE slot = "oneOf" -> [node EXCEPT !.oneOf = ArrayOf(kid)]
      [] slot = "anyOf" -> [node EXCEPT !.anyOf = ArrayOf(kid)]
      [] slot = "allOf" -> [node EXCEPT !.allOf = ArrayOf(kid)]
      [] slot = "properties" -> [node EXCEPT !.properties = MapOf(kid)]
      [] slot = "patternProperties" ->
            [node EXCEPT !.patternProperties = MapOf(kid)]
      [] slot = "definitions" -> [node EXCEPT !.definitions = MapOf(kid)]
      [] slot = "not" -> [node EXCEPT !.not = <<kid>>]
      [] slot = "items.schema" ->
            [node EXCEPT !.items = <<[schema |-> <<kid>>, jsonSchemas |-> << >>]>>]
      [] slot = "items.jsonSchemas" ->
            [node EXCEPT !.items =
                <<[schema |-> << >>, jsonSchemas |-> ArrayOf(kid)]>>]
      [] slot = "additionalProperties" ->
            [node EXCEPT !.additionalProperties =
                <<[allows |-> TRUE, schema |-> <<kid>>]>>]
      [] slot = "additionalItems" ->
            [node EXCEPT !.additionalItems =
                <<[allows |-> TRUE, schema |-> <<kid>>]>>]
      [] slot = "dependencies" ->
            [node EXCEPT !.dependencies =
                [k \in {"a", "b"} |->
                    IF k = "a" THEN [schema |-> <<kid>>, property |-> << >>]
                    ELSE [schema |-> << >>, property |-> <<"x">>]]]

\* the schemas of nesting depth d or less
RECURSIVE Schemas(_)
Schemas(d) ==
    IF d = 0 THEN {Leaf(t) : t \in LeafTypes}
    ELSE {Leaf(t) : t \in LeafTypes}
         \cup {Populate(Leaf(t), slot, kid) :
                  t \in Types, slot \in Slots, kid \in Schemas(d - 1)}

\* the CRDs the function is called with: spec.validation nil, its
\* openAPIV3Schema nil, or a schema
CRDsWithSchema ==
    {[validation |-> << >>], [validation |-> <<[openAPIV3Schema |-> << >>]>>]}
    \cup {[validation |-> <<[openAPIV3Schema |-> <<schema>>]>>] :
             schema \in Schemas(MaxDepth)}

RECURSIVE removeTypeObjectField(_)
RECURSIVE removeTypeObjectFieldFromArray(_)
RECURSIVE removeTypeObjectFieldFromMap(_)
RECURSIVE removeTypeObjectFieldFromPointer(_)

\* the root's type alone
removeTypeObjectFieldAtRoot(schema) ==
    [schema EXCEPT !.type = IF @ = "object" THEN "" ELSE @]

\* removeTypeObjectField (lines 55-84) on a schema that is not nil
removeTypeObjectField(schema) ==
    [type |-> IF schema.type = "object" THEN "" ELSE schema.type,
     description |-> schema.description,
     oneOf |-> removeTypeObjectFieldFromArray(schema.oneOf),
     anyOf |-> removeTypeObjectFieldFromArray(schema.anyOf),
     allOf |-> removeTypeObjectFieldFromArray(schema.allOf),
     properties |-> removeTypeObjectFieldFromMap(schema.properties),
     patternProperties |-> removeTypeObjectFieldFromMap(schema.patternProperties),
     definitions |-> removeTypeObjectFieldFromMap(schema.definitions),
     not |-> removeTypeObjectFieldFromPointer(schema.not),
     items |->
        [i \in DOMAIN schema.items |->
            [schema |-> removeTypeObjectFieldFromPointer(schema.items[i].schema),
             jsonSchemas |->
                removeTypeObjectFieldFromArray(schema.items[i].jsonSchemas)]],
     additionalProperties |->
        [i \in DOMAIN schema.additionalProperties |->
            [schema.additionalProperties[i] EXCEPT
                !.schema = removeTypeObjectFieldFromPointer(@)]],
     additionalItems |->
        [i \in DOMAIN schema.additionalItems |->
            [schema.additionalItems[i] EXCEPT
                !.schema = removeTypeObjectFieldFromPointer(@)]],
     dependencies |->
        [k \in DOMAIN schema.dependencies |->
            [schema.dependencies[k] EXCEPT
                !.schema = removeTypeObjectFieldFromPointer(@)]]]

\* removeTypeObjectField on a pointer: nil is returned as it is (lines
\* 56-58)
removeTypeObjectFieldFromPointer(p) ==
    [i \in DOMAIN p |-> removeTypeObjectField(p[i])]

\* removeTypeObjectFieldFromArray (lines 86-91)
removeTypeObjectFieldFromArray(array) ==
    [i \in DOMAIN array |-> removeTypeObjectField(array[i])]

\* removeTypeObjectFieldFromMap (lines 93-98)
removeTypeObjectFieldFromMap(m) ==
    [k \in DOMAIN m |-> removeTypeObjectField(m[k])]

\* line 41: crd.Spec.Validation == nil || ...OpenAPIV3Schema == nil
NoSchema(crd) ==
    \/ crd.validation = << >>
    \/ crd.validation[1].openAPIV3Schema = << >>

\* ---- RemoveTypeObjectFieldsFromCRDSchema(ctx, crd), lines 38-47
RemoveTypeObjectFieldsFromCRDSchema ==
    /\ hcalls < MaxRemovals
    /\ hcalls' = hcalls + 1
    /\ IF NoSchema(hcrd)
       THEN /\ herr' = "error"
            /\ UNCHANGED hcrd
       ELSE /\ hcrd' = [hcrd EXCEPT !.validation[1].openAPIV3Schema[1] =
                                        removeTypeObjectField(@)]
            /\ herr' = "nil"
    /\ UNCHANGED notSchema

(***************************************************************************)
(*          PART 8: conversion.populateProxyValues                         *)
(* The switch on proxy.Networking.Initialization.Type (lines 36-97); the   *)
(* rest of the function writes other keys of the values.  A helm value is  *)
(* a record of its kind and its content; a map is a function of its keys,  *)
(* a dotted path the sequence of its keys.                                 *)
(***************************************************************************)
Bool(b) == [kind |-> "bool", val |-> b]
Str(s) == [kind |-> "string", val |-> s]
StrList(l) == [kind |-> "list", val |-> l]
MapVal(m) == [kind |-> "map", val |-> m]

\* setHelmValue(values, path, value): value is stored at path, the maps on the
\* way being created where they are missing
RECURSIVE setHelmValue(_, _, _)
setHelmValue(values, path, value) ==
    LET k == Head(path) IN
    [x \in DOMAIN values \cup {k} |->
        IF x # k THEN values[x]
        ELSE IF Len(path) = 1 THEN value
        ELSE MapVal(setHelmValue(IF k \in DOMAIN values /\ values[k].kind = "map"
                                 THEN values[k].val ELSE << >>,
                                 Tail(path), value))]

\* toValues(resources): the resource requirements as a values map, or an
\* error
toValuesOutcomes == {"nil", "error"}
toValues(resources) == MapVal(setHelmValue(<< >>, <<"limits">>, Str(resources)))

\* the key the pull secrets' names are stored under, line 53
PullSecretsKey == "imagePullPolicy"

\* lines 49-52: the names of the secrets, in their order
RECURSIVE SecretNames(_)
SecretNames(secrets) ==
    IF secrets = << >> THEN << >>
    ELSE <<Head(secrets).name>> \o SecretNames(Tail(secrets))

\* the CNI runtimes a ControlPlaneSpec may configure
CNIRuntimes ==
    [priorityClassName : {"", "high"},
     imagePullSecrets : {<< >>, <<[name |-> "s1"]>>,
                         <<[name |-> "s1"], [name |-> "s2"]>>},
     imagePullPolicy : {"", "Always"},
     resources : {<< >>, <<"1cpu">>}]

\* proxy.Networking.Initialization: its type, and the pointers CNI
\* (with its Runtime pointer) and InitContainer (with its Runtime pointer)
Initializations ==
    [type : {"CNI", "", "InitContainer"},
     cni : {<< >>, <<[runtime |-> << >>]>>}
           \cup {<<[runtime |-> <<r>>]>> : r \in CNIRuntimes},
     initContainer : {<< >>,
                      <<[runtime |-> <<[image |-> "img", resources |-> <<"1cpu">>]>>]>>}]

\* lines 38-70 without the resources: the istio_cni values of a runtime
\* pointer
CNIValues(rt) ==
    LET v1 == setHelmValue(<< >>, <<"enabled">>, Bool(TRUE))
        v2 == IF rt # << >> /\ rt[1].priorityClassName # ""
              THEN setHelmValue(v1, <<"priorityClassName">>,
                                Str(rt[1].priorityClassName))
              ELSE v1
        v3 == IF rt # << >> /\ Len(rt[1].imagePullSecrets) > 0
              THEN setHelmValue(v2, <<PullSecretsKey>>,
                                StrList(SecretNames(rt[1].imagePullSecrets)))
              ELSE v2
        v4 == IF rt # << >> /\ rt[1].imagePullPolicy # ""
              THEN setHelmValue(v3, <<"imagePullPolicy">>,
                                Str(rt[1].imagePullPolicy))
              ELSE v3
    IN  v4

\* cni != nil && cni.Runtime != nil (line 43): the runtime as a pointer
RuntimeOf(p) == IF p # << >> THEN p[1].runtime ELSE << >>

\* ---- populateProxyValues(in, values): the switch of lines 36-97
populateProxyValues ==
    /\ ppc = "idle"
    /\ ppc' = "done"
    /\ LET rt == RuntimeOf(IF pin.type = "InitContainer" THEN pin.initContainer
                           ELSE pin.cni)
           res == IF rt = << >> THEN << >> ELSE rt[1].resources
       IN \E o \in IF res = << >> THEN {"nil"} ELSE toValuesOutcomes :
            /\ pret' = o
            /\ IF pin.type = "InitContainer"
               THEN LET v1 == setHelmValue(pvalues, <<"istio_cni", "enabled">>,
                                           Bool(FALSE))
                        v2 == IF rt # << >> /\ rt[1].image # ""
                              THEN setHelmValue(v1, <<"global", "proxy_init", "image">>,
                                                Str(rt[1].image))
                              ELSE v1
                    IN  pvalues' =
                          IF rt = << >> THEN v1
                          ELSE IF o = "nil"
                          THEN setHelmValue(v2, <<"global", "proxy_init", "resources">>,
                                            toValues(res[1]))
                          ELSE v2
               ELSE pvalues' =
                      IF o # "nil" THEN pvalues
                      ELSE setHelmValue(pvalues, <<"istio_cni">>,
                             MapVal(IF res = << >> THEN CNIValues(rt)
                                    ELSE setHelmValue(CNIValues(rt), <<"resources">>,
                                                      toValues(res[1]))))
    /\ UNCHANGED pin
    /\ UNCHANGED notProxy

(***************************************************************************)
(*                            Specifications                               *)
(***************************************************************************)
IdleSkip ==
    /\ clock = 0
    /\ earliest = [n \in NamespacedNames |-> NoEntry]
    /\ hpanic = FALSE

IdleSchema ==
    /\ hcrd = [validation |-> << >>]
    /\ hcalls = 0
    /\ herr = "none"

IdleProxy ==
    /\ pin = [type |-> "", cni |-> << >>, initContainer |-> << >>]
    /\ pvalues = << >>
    /\ ppc = "idle"
    /\ pret = "none"

IdleAux ==
    /\ IdleSkip
    /\ IdleSchema
    /\ IdleProxy

IdleCRD ==
    /\ crdMutex = "free"
    /\ ipc = [w \in Workers |-> "idle"]
    /\ iver = [w \in Workers |-> "v0"]
    /\ ifile = [w \in Workers |-> 1]
    /\ idoc = [w \in Workers |-> 1]
    /\ icrd = [w \in Workers |-> BadDoc]
    /\ iexist = [w \in Workers |-> NoCRD]
    /\ ierrs = [w \in Workers |-> 0]
    /\ iret = [w \in Workers |-> "none"]
    /\ icalls = [w \in Workers |-> << >>]
    /\ cerr = [w \in Workers |-> "none"]
    /\ rcalls = [w \in Workers |-> << >>]
    /\ installs = 0

IdleDel ==
    /\ dpc = [w \in Workers |-> "idle"]
    /\ derr = [w \in Workers |-> "unset"]
    /\ dret = [w \in Workers |-> "none"]
    /\ devents = [w \in Workers |-> << >>]
    /\ deletes = 0

IdleMP ==
    /\ nextRV = 2
    /\ mpc = [w \in Workers |-> "idle"]
    /\ mman = [w \in Workers |-> 0]
    /\ stack = [w \in Workers |-> << >>]
    /\ obj = [w \in Workers |-> NoObj]
    /\ perr = [w \in Workers |-> "nil"]
    /\ mcalls = [w \in Workers |-> << >>]
    /\ mret = [w \in Workers |-> <<"none">>]
    /\ mprev = [w \in Workers |-> <<"none">>]
    /\ mstarted = [w \in Workers |-> 0]
    /\ mf0 = [w \in Workers |-> 0]
    /\ mseen = [w \in Workers |-> 0]
    /\ mfail = [w \in Workers |-> 0]

IdleNP ==
    /\ npc = [w \in Workers |-> "none"]
    /\ slist = [w \in Workers |-> << >>]
    /\ srequired = [w \in Workers |-> {}]
    /\ nns = [w \in Workers |-> ""]
    /\ nkind = [w \in Workers |-> ""]
    /\ nexisting = [w \in Workers |-> {}]
    /\ nadded = [w \in Workers |-> {}]
    /\ nitems = [w \in Workers |-> << >>]
    /\ ndel = [w \in Workers |-> {}]
    /\ nerrs = [w \in Workers |-> << >>]
    /\ ncalls = [w \in Workers |-> << >>]
    /\ nret = [w \in Workers |-> <<"none">>]
    /\ nprev = [w \in Workers |-> [ret |-> <<"none">>, ns |-> "", kind |-> ""]]
    /\ npasses = 0

IdleNS ==
    /\ nspc = [w \in Workers |-> "none"]
    /\ nsns = [w \in Workers |-> ""]
    /\ nskind = [w \in Workers |-> ""]
    /\ rblist = [w \in Workers |-> << >>]
    /\ rbrequired = [w \in Workers |-> {}]
    /\ nsexisting = [w \in Workers |-> {}]
    /\ nsadded = [w \in Workers |-> {}]
    /\ nsitems = [w \in Workers |-> << >>]
    /\ nsdel = [w \in Workers |-> {}]
    /\ nserrs = [w \in Workers |-> << >>]
    /\ nscalls = [w \in Workers |-> << >>]
    /\ nsret = [w \in Workers |-> <<"none">>]
    /\ sinvoked = [w \in Workers |-> << >>]

\* no namespaceReconciler exists
NoNS0 ==
    /\ IdleNS
    /\ nsactive = {}
    /\ nslabel = [ns \in Members |-> ""]
    /\ rbs = [ns \in {MeshNamespace} \cup Members |-> [n \in RBNames |-> NoRB]]
    /\ nad = [ns \in Members |-> FALSE]

\* no networkPolicyStrategy exists
NoNP0 ==
    /\ IdleNP
    /\ nactive = {}
    /\ nps = [ns \in {MeshNamespace} \cup Members |-> [n \in NPNames |-> NoNP]]
    /\ NoNS0

\* the cluster before the operator starts: any CRD may be absent or left
\* behind by an earlier install (body 0), with any version label
InitCRD ==
    /\ NoNP0
    /\ IdleCRD
    /\ IdleDel
    /\ IdleAux
    /\ crds \in [CRDNames -> {NoCRD} \cup
                   {[present |-> TRUE, label |-> l, body |-> 0, schema |-> "none"] :
                        l \in {"junk", "1.0.0", "1.10.0"}}]
    /\ role \in BOOLEAN
    /\ faults = 0
    /\ IdleMP
    /\ objs = [k \in Keys |-> Absent]
    /\ mactive = {}
    /\ manifests = [w \in Workers |-> << >>]

NextCRD ==
    \E w \in Workers :
        \/ ICLock(w)
        \/ ICStat(w)
        \/ ICWalk(w)
        \/ CGet(w)
        \/ CUpdate(w)
        \/ CCreate(w)
        \/ RoleGet(w)
        \/ RoleCreate(w)
        \/ ICReturn(w)

\* concurrent InstallCRDs invocations of the workers
SpecCRD == InitCRD /\ [][NextCRD]_vars

\* the cluster has no CRD and no ClusterRole; at most one client call fails
InitLock ==
    /\ NoNP0
    /\ IdleCRD
    /\ IdleDel
    /\ IdleAux
    /\ crds = [n \in CRDNames |-> NoCRD]
    /\ role = FALSE
    /\ faults = MaxFaults - 1
    /\ IdleMP
    /\ objs = [k \in Keys |-> Absent]
    /\ mactive = {}
    /\ manifests = [w \in Workers |-> << >>]

NextLock ==
    \/ NextCRD
    \/ \E w \in Workers :
          \/ ICWait(w)
          \/ ICAcquire(w)

\* a worker inside InstallCRDs takes its next step: the file system and the
\* client answer every call
InstallStep(w) ==
    \/ ICStat(w)
    \/ ICWalk(w)
    \/ CGet(w)
    \/ CUpdate(w)
    \/ CCreate(w)
    \/ RoleGet(w)
    \/ RoleCreate(w)
    \/ ICReturn(w)

\* sync.Mutex hands the lock to a goroutine that keeps waiting for it
FairLock ==
    \A w \in Workers :
        /\ WF_vars(InstallStep(w))
        /\ SF_vars(ICAcquire(w))

\* concurrent InstallCRDs invocations, blocked callers included, where
\* every call inside an invocation returns
SpecLock == InitLock /\ [][NextLock]_vars /\ FairLock

\* live objects the cluster may hold before a reconciliation: converged,
\* differing in a mutable field, or differing in the immutable field
InitialObjects ==
    {Absent,
     Live(1, 1, addMetadata(Obj("k", 1, 1, NoLabels), Component).labels, 1, "other"),
     Live(2, 1, NoLabels, 1, "other"),
     Live(1, 2, NoLabels, 1, "other")}

\* the clusters a batch is reconciled against: the single-blob batches meet
\* every kind of live object under k1, the five-document batch an empty
\* cluster or one whose k1 differs in the immutable field
InitialClusters(b) ==
    IF Len(b) = 1
    THEN {f \in [Keys -> InitialObjects] :
              f["k2"] \in {Absent, Live(2, 1, NoLabels, 1, "other")}}
    ELSE {f \in [Keys -> InitialObjects] :
              f["k1"] \in {Absent, Live(1, 2, NoLabels, 1, "other")} /\ f["k2"] = Absent}

\* one worker reconciles one of the batches, repeatedly
InitMP ==
    /\ NoNP0
    /\ IdleCRD
    /\ IdleDel
    /\ IdleAux
    /\ crds = [n \in CRDNames |-> NoCRD]
    /\ role = FALSE
    /\ faults = 0
    /\ IdleMP
    /\ mactive = {"w1"}
    /\ \E b \in Batches :
          /\ manifests = [w \in Workers |-> IF w = "w1" THEN b ELSE << >>]
          /\ objs \in InitialClusters(b)

NextMP ==
    \E w \in Workers :
        \/ MPStart(w)
        \/ MPLoop(w)
        \/ MPPre(w)
        \/ MPGet(w)
        \/ MPCreate(w)
        \/ MPPost(w)
        \/ MPApply(w)
        \/ MPDelete(w)
        \/ MPRecreate(w)

\* sequential ProcessManifests calls of one worker
SpecMP == InitMP /\ [][NextMP]_vars

\* the NetworkPolicies of the mesh namespace: two required ones; one
\* required, one internal and one of another owner; one required and one
\* internal
MeshPolicies ==
    { [n \in NPNames |-> CASE n = "p1" -> NetPol(MeshNamespace, "", FALSE)
                            [] n = "p2" -> NetPol(MeshNamespace, "", FALSE)
                            [] OTHER -> NoNP],
      [n \in NPNames |-> CASE n = "p1" -> NetPol(MeshNamespace, "", FALSE)
                            [] n = "p2" -> NetPol(MeshNamespace, "", TRUE)
                            [] OTHER -> NetPol("other", "", FALSE)],
      [n \in NPNames |-> CASE n = "p1" -> NoNP
                            [] n = "p2" -> NetPol(MeshNamespace, "", TRUE)
                            [] OTHER -> NetPol(MeshNamespace, "", FALSE)] }

\* what a member namespace may hold under a name: nothing, a copy made for
\* this mesh, or a policy that does not carry this mesh's member-of label
MemberPolicyStates ==
    {NoNP, NetPol(MeshNamespace, MeshNamespace, FALSE), NetPol("", "", FALSE)}

InitNP ==
    /\ IdleCRD
    /\ IdleDel
    /\ IdleAux
    /\ crds = [n \in CRDNames |-> NoCRD]
    /\ role = FALSE
    /\ faults = 0
    /\ IdleMP
    /\ objs = [k \in Keys |-> Absent]
    /\ mactive = {}
    /\ manifests = [w \in Workers |-> << >>]
    /\ IdleNP
    /\ nactive = {"w1"}
    /\ \E mesh \in MeshPolicies : \E a1 \in [NPNames -> MemberPolicyStates] :
          nps = [ns \in {MeshNamespace} \cup Members |->
                    CASE ns = MeshNamespace -> mesh
                      [] ns = "app1" -> a1
                      [] OTHER -> [n \in NPNames |-> NoNP]]
    /\ NoNS0

NextNP ==
    \E w \in Workers :
        \/ NPNew(w)
        \/ NPReconcile(w)
        \/ NPAdd(w)
        \/ NPDel(w)
        \/ NPRemove(w)
        \/ NPRm(w)

\* sequential reconcile/remove calls of one strategy
SpecNP == InitNP /\ [][NextNP]_vars

NextStale ==
    \/ NextNP
    \/ MeshPolicyDeleted

\* calls of one strategy while the mesh namespace's policies are deleted
SpecStale == InitNP /\ [][NextStale]_vars

NextGone ==
    \/ NextNP
    \/ MemberPolicyRemoved

\* calls of one strategy while another worker deletes obsolete policies
SpecGone == InitNP /\ [][NextGone]_vars

\* the RoleBindings of the mesh namespace: rb1, and rb2 absent, internal
\* or required like rb1
MeshRoleBindingSets ==
    { [n \in RBNames |-> IF n = "rb1" THEN RoleBinding("", FALSE, 1, "mesh") ELSE r2] :
        r2 \in {NoRB, RoleBinding("", TRUE, 1, "mesh"),
                RoleBinding("", FALSE, 1, "mesh")} }

\* a member namespace before a call: labeled for another mesh; or
\* unlabeled and holding a RoleBinding of its own; or reconciled before, with copies that equal the mesh object or an older
\* state of it and NetworkPolicies converged or not
MemberNamespaces ==
    { [label |-> "other-control-plane", nad |-> FALSE,
       rb |-> [n \in RBNames |-> NoRB], np |-> [n \in NPNames |-> NoNP]],
      [label |-> "", nad |-> FALSE,
       rb |-> [n \in RBNames |-> IF n = "rb1" THEN RoleBinding("", FALSE, 1, "user")
                                 ELSE NoRB],
       np |-> [n \in NPNames |-> NoNP]] }
    \cup
    { [label |-> MeshNamespace, nad |-> TRUE,
       rb |-> [n \in RBNames |-> IF n = "rb1" THEN r1 ELSE r2],
       np |-> [n \in NPNames |-> IF n \in m THEN NetPol(MeshNamespace, MeshNamespace, FALSE)
                                 ELSE NoNP]] :
        r1 \in {RoleBinding(MeshNamespace, FALSE, 1, "reconciler"),
                RoleBinding(MeshNamespace, FALSE, 0, "reconciler")},
        r2 \in {NoRB, RoleBinding(MeshNamespace, FALSE, 1, "reconciler")},
        m \in {{"p2", "p3"}} }

\* one worker constructs namespace reconcilers and calls them; app1 is one
\* of the MemberNamespaces, app2 a namespace that was never a member; at
\* most one client call fails
InitNS ==
    /\ IdleCRD
    /\ IdleDel
    /\ IdleAux
    /\ crds = [n \in CRDNames |-> NoCRD]
    /\ role = FALSE
    /\ faults = MaxFaults - 1
    /\ IdleMP
    /\ objs = [k \in Keys |-> Absent]
    /\ mactive = {}
    /\ manifests = [w \in Workers |-> << >>]
    /\ IdleNP
    /\ IdleNS
    /\ nactive = {"w1"}
    /\ nsactive = {"w1"}
    /\ \E mesh \in MeshRoleBindingSets : \E a1 \in MemberNamespaces :
          /\ nslabel = [ns \in Members |-> IF ns = "app1" THEN a1.label ELSE ""]
          /\ nad = [ns \in Members |-> IF ns = "app1" THEN a1.nad ELSE FALSE]
          /\ rbs = [ns \in {MeshNamespace} \cup Members |->
                       CASE ns = MeshNamespace -> mesh
                         [] ns = "app1" -> a1.rb
                         [] OTHER -> [n \in RBNames |-> NoRB]]
          /\ nps = [ns \in {MeshNamespace} \cup Members |->
                       CASE ns = MeshNamespace ->
                              [n \in NPNames |-> IF n = "p3" THEN NoNP
                                                 ELSE NetPol(MeshNamespace, "", FALSE)]
                         [] ns = "app1" -> a1.np
                         [] OTHER -> [n \in NPNames |-> NoNP]]

NextNS ==
    \/ \E w \in Workers :
          \/ NSNew(w)
          \/ NSReconcile(w)
          \/ NSLabel(w)
          \/ NSNad(w)
          \/ NSRbAdd(w)
          \/ NSRbDel(w)
          \/ NSStrategy(w)
          \/ NPAdd(w)
          \/ NPDel(w)
          \/ NPRm(w)
          \/ NSReturn(w)
          \/ NSRemove(w)
          \/ NSRmRb(w)
          \/ NSUnlabel(w)
    \/ MeshRoleBindingDeleted

\* sequential reconcile/remove calls of namespace reconcilers
SpecNS == InitNS /\ [][NextNS]_vars

\* no other component runs while control planes are deleted
InitDel ==
    /\ NoNP0
    /\ IdleCRD
    /\ IdleDel
    /\ IdleAux
    /\ crds = [n \in CRDNames |-> NoCRD]
    /\ role = FALSE
    /\ faults = 0
    /\ IdleMP
    /\ objs = [k \in Keys |-> Absent]
    /\ mactive = {}
    /\ manifests = [w \in Workers |-> << >>]

NextDel ==
    \E w \in Workers :
        \/ DelBegin(w)
        \/ DelPrune(w)
        \/ DelPruned(w)
        \/ DelReturn(w)
        \/ DelDeferred(w)

\* Delete calls of the workers' control plane reconcilers
SpecDel == InitDel /\ [][NextDel]_vars

\* the operator has started and the map is empty
InitSkip ==
    /\ NoNP0
    /\ IdleCRD
    /\ IdleDel
    /\ IdleSkip
    /\ IdleSchema
    /\ IdleProxy
    /\ crds = [n \in CRDNames |-> NoCRD]
    /\ role = FALSE
    /\ faults = 0
    /\ IdleMP
    /\ objs = [k \in Keys |-> Absent]
    /\ mactive = {}
    /\ manifests = [w \in Workers |-> << >>]

NextSkip ==
    \/ \E ctx \in Contexts : \E n \in NamespacedNames :
          SkipReconciliationUntilCacheSynced(ctx, n)
    \/ Tick

\* calls of SkipReconciliationUntilCacheSynced while time passes
SpecSkip == InitSkip /\ [][NextSkip]_vars

\* a CRD that the API server rejected
InitSchema ==
    /\ NoNP0
    /\ IdleCRD
    /\ IdleDel
    /\ IdleSkip
    /\ IdleProxy
    /\ hcrd \in CRDsWithSchema
    /\ hcalls = 0
    /\ herr = "none"
    /\ crds = [n \in CRDNames |-> NoCRD]
    /\ role = FALSE
    /\ faults = 0
    /\ IdleMP
    /\ objs = [k \in Keys |-> Absent]
    /\ mactive = {}
    /\ manifests = [w \in Workers |-> << >>]

NextSchema == RemoveTypeObjectFieldsFromCRDSchema

\* a ControlPlaneSpec is about to be converted to helm values
InitProxy ==
    /\ NoNP0
    /\ IdleCRD
    /\ IdleDel
    /\ IdleSkip
    /\ IdleSchema
    /\ pin \in Initializations
    /\ pvalues = << >>
    /\ ppc = "idle"
    /\ pret = "none"
    /\ crds = [n \in CRDNames |-> NoCRD]
    /\ role = FALSE
    /\ faults = 0
    /\ IdleMP
    /\ objs = [k \in Keys |-> Absent]
    /\ mactive = {}
    /\ manifests = [w \in Workers |-> << >>]

NextProxy == populateProxyValues

\* one call of populateProxyValues
SpecProxy == InitProxy /\ [][NextProxy]_vars

\* calls of RemoveTypeObjectFieldsFromCRDSchema on one CRD
SpecSchema == InitSchema /\ [][NextSchema]_vars

\* a batch of one blob with two documents that no call needs to change when
\* the cluster already holds both objects
DetBatch ==
    << Manifest(<<"templates/rb", ".yaml">>,
                <<Obj("k1", 1, 1, NoLabels), Obj("k2", 1, 1, NoLabels)>>) >>

\* two runs of ProcessManifests on the same manifests, one per worker, with
\* a client that never fails (the failure budget is used up)
InitDet ==
    /\ NoNP0
    /\ IdleCRD
    /\ IdleDel
    /\ IdleAux
    /\ crds = [n \in CRDNames |-> NoCRD]
    /\ role = FALSE
    /\ faults = MaxFaults
    /\ IdleMP
    /\ objs \in [Keys -> InitialObjects]
    /\ mactive = Workers
    /\ manifests = [w \in Workers |-> DetBatch]

SpecDet == InitDet /\ [][NextMP]_vars

\* one object, reconciled by two workers at once
RaceBatch ==
    << Manifest(<<"templates/sa", ".yaml">>, <<Obj("k1", 1, 1, NoLabels)>>) >>

\* two workers run ProcessManifests for the same object, which is absent
\* or live in any of the initial forms; no hook or client call fails
InitRace ==
    /\ NoNP0
    /\ IdleCRD
    /\ IdleDel
    /\ IdleAux
    /\ crds = [n \in CRDNames |-> NoCRD]
    /\ role = FALSE
    /\ faults = MaxFaults
    /\ IdleMP
    /\ objs \in {f \in [Keys -> InitialObjects] : f["k2"] = Absent}
    /\ mactive = Workers
    /\ manifests = [w \in Workers |-> RaceBatch]

\* concurrent ProcessManifests calls for one object
SpecRace == InitRace /\ [][NextMP]_vars

(***************************************************************************)
(*                     Properties of the CRD installer                     *)
(***************************************************************************)
InInstall(w) == ipc[w] # "idle"

\* C1: invocations of InstallCRDs never interleave: at most one worker is
\* between crdMutex.Lock() and the deferred Unlock(), that worker is the
\* holder of the lock, and every step of an invocation (file processing or
\* client call) is taken while every other worker is outside InstallCRDs.
C1_MutualExclusion ==
    /\ \A w1, w2 \in Workers : InInstall(w1) /\ InInstall(w2) => w1 = w2
    /\ \A w \in Workers : InInstall(w) => crdMutex = w

\* C1 witness: a second invocation is issuing a client call after another
\* worker's invocation has run and returned
C1_Witness ==
    \E w1, w2 \in Workers :
        /\ w1 # w2
        /\ iret[w1] # "none" /\ ipc[w1] = "idle"
        /\ ipc[w2] \in {"update", "create"}

UpdateIssued(w) ==
    /\ ipc[w] \in {"update", "update2"}
    /\ Len(icalls'[w]) = Len(icalls[w]) + 1

\* C2: an installed CRD is overwritten (Update issued) only when the incoming
\* CRD's maistra-version is strictly greater than the installed one or the
\* installed one has no parseable version; a parseable installed version
\* never decreases.
C2_OverwriteOnlyNewer ==
    [][ /\ \A w \in Workers : UpdateIssued(w) =>
              LET ex == crds[icrd[w].name] IN
              /\ ex.present
              /\ getMaistraVersion(icrd[w]) # << >>
              /\ \/ getMaistraVersion(ex) = << >>
                 \/ LessThan(getMaistraVersion(ex), getMaistraVersion(icrd[w]))
        /\ \A n \in CRDNames :
              (crds[n].present /\ getMaistraVersion(crds[n]) # << >>) =>
                  /\ crds'[n].present
                  /\ getMaistraVersion(crds'[n]) # << >>
                  /\ ~LessThan(getMaistraVersion(crds'[n]), getMaistraVersion(crds[n]))
      ]_vars

\* C2 witness: an Update has replaced an installed CRD of parseable version
\* 1.0.0 by a newer one
C2_Witness ==
    \E w \in Workers :
        /\ icalls[w] = <<"Get", "Update">>
        /\ ipc[w] = "walk"
        /\ iexist[w].label = "1.0.0"
        /\ crds[icrd[w].name].label = "1.1.0"

CreateCRDReturned(w) == ipc[w] \in {"walk", "roleGet", "roleCreate", "ret"}

Differs(existingCrd, crd) ==
    \/ existingCrd.label # crd.label
    \/ existingCrd.body # crd.body
    \/ existingCrd.schema # crd.schema

RECURSIVE Flat(_)
\* the object documents of a sequence of documents, Lists expanded, in the
\* order they are processed
Flat(docs) ==
    IF docs = << >> THEN << >>
    ELSE LET d == Head(docs) IN
         (CASE d.kind = "obj" -> <<d>>
            [] d.kind = "list" -> Flat(d.items)
            [] OTHER -> << >>) \o Flat(Tail(docs))

RECURSIVE CountDocs(_)
\* the documents of a sequence of documents, Lists and their items included
CountDocs(docs) ==
    IF docs = << >> THEN 0
    ELSE 1 + CountDocs(Head(docs).items) + CountDocs(Tail(docs))

RECURSIVE YamlDocs(_)
\* the top-level documents of the .yaml manifests of a batch
YamlDocs(ms) ==
    IF ms = << >> THEN << >>
    ELSE (IF HasSuffix(Head(ms).name, ".yaml") THEN Head(ms).docs ELSE << >>)
         \o YamlDocs(Tail(ms))

NumBad(docs) == Cardinality({i \in DOMAIN docs : docs[i].kind = "bad"})

NoConflictingDuplicates(ms) ==
    LET f == Flat(YamlDocs(ms)) IN
    \A i, j \in DOMAIN f : f[i].key = f[j].key => f[i] = f[j]

Mutating(c) == c.op \in {"Create", "Apply", "Delete"}

Returned(w) == mpc[w] = "idle" /\ mstarted[w] >= 1

NoMutation(w) == \A i \in DOMAIN mcalls[w] : ~Mutating(mcalls[w][i])

\* C4 as stated: a second call with the same manifests issues no Create, no
\* patch Apply and no Delete and returns a nil aggregate (stated even for
\* behaviours in which no hook and no client call ever fails).
C4_SecondCallNoChange ==
    \A w \in Workers :
        (mstarted[w] >= 2 /\ faults = 0) =>
            /\ NoMutation(w)
            /\ Returned(w) => mret[w] = << >>

\* C4 amended: when the first call returned a nil aggregate, no two
\* documents of the batch with the same ResourceKey differ, and no hook or
\* client call fails during the second call, the second call issues no
\* Create, no patch Apply and no Delete, collects no error and returns nil.
C4_SecondCallNoChangeAfterSuccess ==
    \A w \in Workers :
        (/\ mstarted[w] >= 2
         /\ mprev[w] = << >>
         /\ NoConflictingDuplicates(manifests[w])
         /\ faults = mf0[w]) =>
            /\ NoMutation(w)
            /\ mpc[w] # "idle" => \A i \in DOMAIN stack[w] : stack[w][i].errs = << >>
            /\ Returned(w) => mret[w] = << >>

\* C4 witness: a second call has returned after a first call that created
\* or patched objects and returned nil
C4_Witness ==
    \E w \in Workers :
        /\ mstarted[w] = 2 /\ Returned(w)
        /\ mprev[w] = << >> /\ mret[w] = << >>
        /\ NoConflictingDuplicates(manifests[w])
        /\ faults = mf0[w]
        /\ nextRV > 3
        /\ Len(mcalls[w]) >= 4

NumCalls(w, op) == Cardinality({i \in DOMAIN mcalls[w] : mcalls[w][i].op = op})

\* C5: a failing document never stops the batch: when ProcessManifests
\* returns, every document of every .yaml manifest has been dispatched and
\* every object document has been processed, the aggregate holds exactly
\* one error per failed top-level document (exactly the undecodable ones
\* when nothing else failed, in which case every object of the batch is in
\* the cluster), and it is nil when none failed.
C5_BatchContinuesAfterFailure ==
    \A w \in Workers :
        Returned(w) =>
            LET docs == YamlDocs(manifests[w]) IN
            /\ mseen[w] = CountDocs(docs)
            /\ NumCalls(w, "PreHook") = Len(Flat(docs))
            /\ NumCalls(w, "Return") = Len(Flat(docs))
            /\ Len(mret[w]) = mfail[w]
            /\ faults = mf0[w] =>
                  /\ Len(mret[w]) = NumBad(docs)
                  /\ \A i \in DOMAIN Flat(docs) : objs[Flat(docs)[i].key].present

\* C5 witness: the batch of five documents returned exactly one error, the
\* decode error, and all its objects are in the cluster
C5_Witness ==
    \E w \in Workers :
        /\ Returned(w)
        /\ Len(YamlDocs(manifests[w])) = 5
        /\ mret[w] = <<"decode">>
        /\ mstarted[w] = 1
        /\ \A k \in Keys : objs[k].present
        /\ \E i \in DOMAIN mcalls[w] : Mutating(mcalls[w][i])

\* the calls of worker w from position i on show f at offset n
At(w, i, n) == mcalls[w][i + n]
Has(w, i, n) == i + n <= Len(mcalls[w])
InvalidApply(w, i) == mcalls[w][i].op = "Apply" /\ mcalls[w][i].res = "Invalid"

\* C6: after a patch Apply that fails as Invalid, processObject issues the
\* Delete of that object, then, the Delete having succeeded, a Create of
\* the desired object with its resourceVersion cleared; when both succeed
\* nil is returned for the object and the resourceVersion the server stored
\* differs from the one the object had before the deletion.
C6_DeleteThenRecreate ==
    \A w \in Workers : \A i \in DOMAIN mcalls[w] :
        InvalidApply(w, i) =>
            /\ ~Has(w, i, 1) => mpc[w] = "delete"
            /\ Has(w, i, 1) =>
                  /\ At(w, i, 1).op = "Delete" /\ At(w, i, 1).key = At(w, i, 0).key
                  /\ At(w, i, 1).live = At(w, i, 0).live
            /\ (Has(w, i, 1) /\ At(w, i, 1).res = "nil") =>
                  /\ ~Has(w, i, 2) =>
                        mpc[w] = "recreate" /\ ~objs[At(w, i, 0).key].present
                  /\ Has(w, i, 2) =>
                        /\ At(w, i, 2).op = "Create"
                        /\ At(w, i, 2).key = At(w, i, 0).key
                        /\ At(w, i, 2).sent = 0
                  /\ (Has(w, i, 2) /\ At(w, i, 2).res = "nil") =>
                        /\ Has(w, i, 3)
                        /\ At(w, i, 3).op = "Return" /\ At(w, i, 3).res = "nil"
                        /\ At(w, i, 2).newrv # At(w, i, 1).live
                        /\ At(w, i, 2).newrv > At(w, i, 1).live

\* C6 witness: the immutable field differed, the patch was rejected, and the
\* object was deleted and recreated with a new resourceVersion
C6_Witness ==
    \E w \in Workers : \E i \in DOMAIN mcalls[w] :
        /\ InvalidApply(w, i)
        /\ Has(w, i, 3)
        /\ At(w, i, 1).res = "nil" /\ At(w, i, 2).res = "nil"
        /\ mpc[w] = "loop"
        /\ Len(mcalls[w]) = i + 3
        /\ objs[At(w, i, 0).key].rv = At(w, i, 2).newrv
        /\ objs[At(w, i, 0).key].sel = 1

FallbackCreateFailed(w, i) ==
    /\ InvalidApply(w, i)
    /\ Has(w, i, 3)
    /\ At(w, i, 1).res = "nil"
    /\ At(w, i, 2).res # "nil"

C8_OnlyInvalidTriggersFallback ==
    \A w \in Workers : \A i \in DOMAIN mcalls[w] :
        LET c == mcalls[w][i] IN
        /\ c.op = "Delete" =>
              /\ i > 1
              /\ InvalidApply(w, i - 1)
              /\ mcalls[w][i - 1].key = c.key
        /\ c.op = "Create" =>
              /\ i > 1
              /\ mcalls[w][i - 1].key = c.key
              /\ \/ mcalls[w][i - 1].op = "Get" /\ mcalls[w][i - 1].res = "NotFound"
                 \/ mcalls[w][i - 1].op = "Delete" /\ mcalls[w][i - 1].res = "nil"
        /\ (c.op = "Get" /\ c.res \notin {"NotFound", "found:patch"}) =>
              /\ Has(w, i, 1)
              /\ At(w, i, 1).op = "Return"
              /\ At(w, i, 1).res = (CASE c.res = "error" -> "Get:error"
                                      [] c.res = "found:patcherror" -> "CreatePatch:error"
                                      [] OTHER -> "nil")
        /\ (c.op = "Apply" /\ c.res # "Invalid") =>
              /\ Has(w, i, 1)
              /\ At(w, i, 1).op = "Return"
              /\ At(w, i, 1).res = (IF c.res = "nil" THEN "nil" ELSE "Apply:" \o c.res)
        /\ (c.op = "Create" /\ c.res # "nil" /\ i > 1 /\ mcalls[w][i - 1].op = "Get") =>
              /\ Has(w, i, 1)
              /\ At(w, i, 1).op = "Return"
              /\ At(w, i, 1).res = "Create:" \o c.res

\* C8 witness: a patch failed with an error other than Invalid and the call
\* has returned that error without any Delete
C8_Witness ==
    \E w \in Workers :
        /\ Returned(w)
        /\ \E i \in DOMAIN mcalls[w] :
              mcalls[w][i].op = "Apply" /\ mcalls[w][i].res = "error"
        /\ NumCalls(w, "Delete") = 0
        /\ \E j \in DOMAIN mret[w] : mret[w][j] = "Apply:error"

\* C9: the Delete of the delete-then-recreate fallback uses foreground
\* cascading propagation.
C9_ForegroundDelete ==
    \A w \in Workers : \A i \in DOMAIN mcalls[w] :
        mcalls[w][i].op = "Delete" => mcalls[w][i].pol = "Foreground"

HasStandardLabels(labels) ==
    /\ {KubernetesAppNameKey, KubernetesAppInstanceKey, KubernetesAppVersionKey,
        KubernetesAppComponentKey, KubernetesAppPartOfKey,
        KubernetesAppManagedByKey, OwnerKey} \subseteq DOMAIN labels
    /\ labels[KubernetesAppNameKey] = Component
    /\ labels[KubernetesAppInstanceKey] = AppInstance
    /\ labels[KubernetesAppVersionKey] = AppVersion
    /\ labels[KubernetesAppComponentKey] = Component
    /\ labels[KubernetesAppPartOfKey] = "istio"
    /\ labels[KubernetesAppManagedByKey] = "maistra-istio-operator"
    /\ labels[OwnerKey] = Owner

\* C10: the object handed to the pre-process hook and to every client call
\* already carries the standard labels, the first call for an object is the
\* pre-process hook, and every object ProcessManifests created or recreated
\* in the cluster carries all of them.
C10_LabelsBeforePersistence ==
    /\ \A w \in Workers : \A i \in DOMAIN mcalls[w] :
          /\ HasStandardLabels(mcalls[w][i].labels)
          /\ (i = 1 \/ mcalls[w][i - 1].op = "Return") <=> mcalls[w][i].op = "PreHook"
    /\ \A k \in Keys :
          (objs[k].present /\ objs[k].by = "processor") =>
              HasStandardLabels(objs[k].labels)

\* C10 witness: an object whose document carried labels of its own (one of
\* them a part-of label) was created, stamped, and a later document failed
C10_Witness ==
    \E w \in Workers :
        /\ objs["k2"].present /\ objs["k2"].by = "processor"
        /\ "app" \in DOMAIN objs["k2"].labels
        /\ objs["k2"].labels[KubernetesAppPartOfKey] = "istio"
        /\ objs["k1"].present /\ objs["k1"].by = "processor"
        /\ faults > 0

CallsOf(w) == [i \in DOMAIN mcalls[w] |-> [op |-> mcalls[w][i].op,
                                            key |-> mcalls[w][i].key,
                                            res |-> mcalls[w][i].res]]

\* the run of w went from start to return without a failure and without
\* changing the cluster
CleanRun(w) ==
    /\ mstarted[w] = 1
    /\ Returned(w)
    /\ NoMutation(w)
    /\ mret[w] = << >>

\* C11: for a fixed manifest list and a fixed cluster state, every run of
\* ProcessManifests issues the same sequence of hook and client calls and
\* returns the same aggregate: two runs on the same manifests that met the
\* same, unchanged cluster and a client that never fails issued the same
\* calls in the same order.
C11_SameCallsForSameInput ==
    \A w1, w2 \in Workers :
        (/\ manifests[w1] = manifests[w2]
         /\ CleanRun(w1) /\ CleanRun(w2)) =>
            /\ CallsOf(w1) = CallsOf(w2)
            /\ mret[w1] = mret[w2]

\* the calls of one object are contiguous: every call that is not a
\* pre-process hook continues the object of the call before it
OneObjectAtATime(w) ==
    \A i \in DOMAIN mcalls[w] :
        mcalls[w][i].op # "PreHook" =>
            /\ i > 1
            /\ mcalls[w][i - 1].op # "Return"
            /\ mcalls[w][i - 1].key = mcalls[w][i].key

CreatesOf(w, k) ==
    {i \in DOMAIN mcalls[w] : mcalls[w][i].op = "Create" /\ mcalls[w][i].key = k}

FirstGetOf(w, k, i) ==
    /\ mcalls[w][i].op = "Get" /\ mcalls[w][i].key = k
    /\ \A j \in 1..(i - 1) : ~(mcalls[w][j].op = "Get" /\ mcalls[w][j].key = k)

\* the batch of w has two documents of key k, k was absent when the first
\* of them was processed, and its Create succeeded
CreatedFirstOfTwo(w, k) ==
    /\ Cardinality({i \in DOMAIN Flat(YamlDocs(manifests[w])) :
                        Flat(YamlDocs(manifests[w]))[i].key = k}) >= 2
    /\ \E i \in DOMAIN mcalls[w] :
          /\ FirstGetOf(w, k, i) /\ mcalls[w][i].res = "NotFound"
          /\ Has(w, i, 1) /\ At(w, i, 1).op = "Create" /\ At(w, i, 1).res = "nil"

\* C12 as stated: the calls of two documents of one batch never interleave,
\* and when the first document of a key created the object, Create is
\* issued exactly once for that key in the call (stated for calls during
\* which no hook and no client call fails).
C12_CreateExactlyOnce ==
    \A w \in Workers :
        /\ OneObjectAtATime(w)
        /\ \A k \in Keys :
              (CreatedFirstOfTwo(w, k) /\ faults = mf0[w]) =>
                  Cardinality(CreatesOf(w, k)) = 1

\* C12 amended: the calls of two documents of one batch never interleave;
\* once a document's Create of a key has succeeded, every later Get of that
\* key in the call finds the object, and a later Create of that key is
\* issued only by the fallback, right after a patch of that key was rejected
\* as Invalid and the Delete succeeded.
C12_DuplicateKeysSequential ==
    \A w \in Workers :
        /\ OneObjectAtATime(w)
        /\ \A i, j \in DOMAIN mcalls[w] :
              (/\ i < j
               /\ mcalls[w][i].op = "Create" /\ mcalls[w][i].res = "nil"
               /\ mcalls[w][j].key = mcalls[w][i].key) =>
                  /\ mcalls[w][j].op = "Get" =>
                        \/ mcalls[w][j].res # "NotFound"
                        \/ \E d \in (i + 1)..(j - 1) :
                              /\ mcalls[w][d].op = "Delete"
                              /\ mcalls[w][d].key = mcalls[w][i].key
                              /\ mcalls[w][d].res = "nil"
                  /\ mcalls[w][j].op = "Create" =>
                        /\ j > 2
                        /\ mcalls[w][j - 1].op = "Delete"
                        /\ mcalls[w][j - 1].res = "nil"
                        /\ InvalidApply(w, j - 2)
                        /\ mcalls[w][j - 2].key = mcalls[w][i].key

\* C12 witness: of two documents of key k1 the first created the object and
\* the second found it with Get and patched it; Create was issued once
C12_Witness ==
    \E w \in Workers :
        /\ Returned(w) /\ faults = mf0[w]
        /\ CreatedFirstOfTwo(w, "k1")
        /\ Cardinality(CreatesOf(w, "k1")) = 1
        /\ \E j \in DOMAIN mcalls[w] :
              /\ mcalls[w][j].op = "Apply" /\ mcalls[w][j].key = "k1"
              /\ mcalls[w][j].res = "nil"
        /\ mret[w] = << >>

\* every object document of the batch of w has its object in the cluster
DesiredPresent(w) ==
    \A i \in DOMAIN Flat(YamlDocs(manifests[w])) :
        objs[Flat(YamlDocs(manifests[w]))[i].key].present

\* the call of w that has returned repeated, with the same manifests, a call
\* that returned errors, and no hook or client call failed during it
RepeatedAfterFailure(w) ==
    /\ mstarted[w] >= 2
    /\ Returned(w)
    /\ mprev[w] # << >>
    /\ faults = mf0[w]

\* C13 as stated: a call repeated after a call that failed part-way, with
\* no further failure, returns a nil aggregate and leaves every desired
\* object in the cluster.
C13_RepeatReturnsNil ==
    \A w \in Workers :
        RepeatedAfterFailure(w) => (mret[w] = << >> /\ DesiredPresent(w))

\* C13 amended: a call repeated after a call that failed part-way, with no
\* further failure, leaves every desired object in the cluster and returns
\* exactly one error per undecodable document of the batch, hence nil when
\* every document decodes.
C13_RepeatConverges ==
    \A w \in Workers :
        RepeatedAfterFailure(w) =>
            /\ DesiredPresent(w)
            /\ Len(mret[w]) = NumBad(YamlDocs(manifests[w]))
            /\ \A i \in DOMAIN mret[w] : mret[w][i] = "decode"

\* C13 witness: the first call deleted k1 in the fallback and failed to
\* re-create it; the repeated call found k1 absent, created it, and
\* returned nil
C13_Witness ==
    \E w \in Workers :
        /\ RepeatedAfterFailure(w)
        /\ mprev[w] = <<"Apply:Invalid">>
        /\ mret[w] = << >>
        /\ \E i \in DOMAIN mcalls[w] :
              /\ mcalls[w][i].op = "Get" /\ mcalls[w][i].key = "k1"
              /\ mcalls[w][i].res = "NotFound"
              /\ Has(w, i, 1) /\ At(w, i, 1).op = "Create" /\ At(w, i, 1).res = "nil"
        /\ DesiredPresent(w)

(***************************************************************************)
(*                 Properties of the networkPolicyStrategy                 *)
(***************************************************************************)
\* a reconcileNamespaceInMesh call of w has returned
Reconciled(w) == npc[w] = "idle" /\ nkind[w] = "reconcile" /\ ncalls[w] # << >>

NoCallFailed(w) == \A i \in DOMAIN ncalls[w] : ncalls[w][i].res = "nil"

\* the set E the call's List returned
Listed(w) == ncalls[w][1].names

CallsTo(w, op) == {i \in DOMAIN ncalls[w] : ncalls[w][i].op = op}
NamesOf(w, op) == {ncalls[w][i].name : i \in CallsTo(w, op)}

\* C14: when no client call of a reconcileNamespaceInMesh(ns) fails, with R
\* the strategy's required set and E the member-of-labeled policies the
\* List found in ns: exactly one Create was issued for every name of R-E
\* and for no other, exactly one Delete for every name of E-R and for no
\* other, no call named a policy of E \cap R, nil was returned, and the
\* labeled set of ns is R.
C14_SetDifference ==
    \A w \in Workers :
        (Reconciled(w) /\ NoCallFailed(w)) =>
            LET E == Listed(w)
                R == srequired[w]
            IN  /\ NamesOf(w, "Create") = R \ E
                /\ Cardinality(CallsTo(w, "Create")) = Cardinality(R \ E)
                /\ NamesOf(w, "Delete") = E \ R
                /\ Cardinality(CallsTo(w, "Delete")) = Cardinality(E \ R)
                /\ \A i \in DOMAIN ncalls[w] : ncalls[w][i].name \notin E \cap R
                /\ Len(ncalls[w]) = 1 + Cardinality(R \ E) + Cardinality(E \ R)
                /\ nret[w] = << >>
                /\ MemberPolicies(nns[w]) = R

\* C14 witness: a pass that created a missing policy, deleted an obsolete
\* one and left alone one that was required and present
C14_Witness ==
    \E w \in Workers :
        /\ Reconciled(w) /\ NoCallFailed(w)
        /\ srequired[w] = {"p1", "p2"}
        /\ Listed(w) = {"p2", "p3"}
        /\ NamesOf(w, "Create") = {"p1"}
        /\ NamesOf(w, "Delete") = {"p3"}
        /\ MemberPolicies(nns[w]) = {"p1", "p2"}

FailedCalls(w) ==
    {i \in DOMAIN ncalls[w] :
        \/ ncalls[w][i].op = "Create" /\ ncalls[w][i].res # "nil"
        \/ ncalls[w][i].op = "Delete" /\ ncalls[w][i].res = "error"}

\* C15: a failed Create or Delete does not end reconcileNamespaceInMesh:
\* whatever fails after the List, when the call returns a Create has been
\* attempted once for every required policy the namespace lacked and a
\* Delete once for every obsolete one, and the aggregate returned holds one
\* error per failed Create and per failed Delete (a Delete that finds
\* nothing is not a failure).
C15_ContinuesAfterFailure ==
    \A w \in Workers :
        (Reconciled(w) /\ ncalls[w][1].res = "nil") =>
            LET E == Listed(w)
                R == srequired[w]
            IN  /\ NamesOf(w, "Create") = R \ E
                /\ Cardinality(CallsTo(w, "Create")) = Cardinality(R \ E)
                /\ NamesOf(w, "Delete") = E \ R
                /\ Cardinality(CallsTo(w, "Delete")) = Cardinality(E \ R)
                /\ Len(nret[w]) = Cardinality(FailedCalls(w))
                /\ \A i \in DOMAIN nret[w] :
                      nret[w][i] \in {"Create:error", "Create:AlreadyExists",
                                      "Delete:error"}

\* C15 witness: the first Create failed, the second Create was still made
\* and succeeded, the Delete was still made and failed, and both errors
\* were returned together
C15_Witness ==
    \E w \in Workers :
        /\ Reconciled(w)
        /\ Len(ncalls[w]) = 4
        /\ ncalls[w][2].op = "Create" /\ ncalls[w][2].res = "error"
        /\ ncalls[w][3].op = "Create" /\ ncalls[w][3].res = "nil"
        /\ ncalls[w][4].op = "Delete" /\ ncalls[w][4].res = "error"
        /\ nret[w] = <<"Create:error", "Delete:error">>

\* the call before the current one of w was a reconcileNamespaceInMesh of
\* the same namespace that returned errors of Create or Delete
LeftPartiallyConverged(w) ==
    /\ nprev[w].kind = "reconcile"
    /\ nprev[w].ns = nns[w]
    /\ nprev[w].ret # << >>
    /\ \A i \in DOMAIN nprev[w].ret :
          nprev[w].ret[i] \in {"Create:error", "Create:AlreadyExists", "Delete:error"}

\* C16: after a reconcileNamespaceInMesh that left a namespace partially
\* converged (it returned errors of Create or Delete), a later
\* reconcileNamespaceInMesh of that namespace by the same strategy during
\* which no client call fails returns nil and ends with the namespace's
\* member-of-labeled policies equal to the required set.
C16_LaterPassConverges ==
    \A w \in Workers :
        (Reconciled(w) /\ NoCallFailed(w) /\ LeftPartiallyConverged(w)) =>
            /\ MemberPolicies(nns[w]) = srequired[w]
            /\ nret[w] = << >>

\* C16 witness: a pass failed to create a required policy; the next pass of
\* the same namespace created it and the namespace holds the required set
C16_Witness ==
    \E w \in Workers :
        /\ Reconciled(w) /\ NoCallFailed(w) /\ LeftPartiallyConverged(w)
        /\ nprev[w].ret = <<"Create:error">>
        /\ NamesOf(w, "Create") # {}
        /\ MemberPolicies(nns[w]) = srequired[w]
        /\ srequired[w] # {}


\* the objects and labels a namespace reconciler may change
nsCluster == <<nslabel, rbs, nad, nps>>

\* worker w starts reconcileNamespaceInMesh(ns) with this step
StartsReconcile(w, ns) ==
    /\ nspc[w] = "idle"
    /\ nspc'[w] # "idle"
    /\ nskind'[w] = "reconcile"
    /\ nsns'[w] = ns

\* C17: reconcileNamespaceInMesh on a namespace whose member-of label names
\* another mesh returns an error at once, and neither a label nor an object
\* of the cluster changes, and the networking strategy is not invoked
C17_OtherMeshRejected ==
    [][\A w \in Workers : \A ns \in Members :
          (StartsReconcile(w, ns) /\ nslabel[ns] \notin {"", MeshNamespace})
          => /\ nspc'[w] = "none"
             /\ nsret'[w] \in {<<"AlreadyMember">>, <<"Get:error">>}
             /\ UNCHANGED nsCluster
             /\ sinvoked'[w] = << >>]_vars

C17_Witness ==
    \E w \in Workers :
        /\ nspc[w] = "none"
        /\ nsret[w] = <<"AlreadyMember">>
        /\ nslabel[nsns[w]] = "other-control-plane"
        /\ nscalls[w] = << NSCall("Get", "Namespace", nsns[w], "nil") >>

\* every client call of w's current call has completed without an error
\* and the strategy has returned nil: the call is about to return nil
ReturningNil(w, kind) ==
    /\ nspc[w] = "wait"
    /\ npc[w] = "idle"
    /\ nskind[w] = kind
    /\ nserrs[w] = << >>
    /\ nret[w] = << >>

\* RoleBinding a is b but for the member-of label (and the namespace)
SameButLabel(a, b) == a.present /\ b.present /\ a.body = b.body /\ a.internal = b.internal

RequiredOfMesh ==
    {n \in RBNames : rbs[MeshNamespace][n].present /\ ~rbs[MeshNamespace][n].internal}

ListedObject(w, n) ==
    rblist[w][CHOOSE i \in DOMAIN rblist[w] : rblist[w][i].name = n].obj

LabeledAndInvokedOnce(w, ns) ==
    /\ nslabel[ns] = MeshNamespace
    /\ sinvoked[w] = << [method |-> "reconcile", ns |-> ns] >>

WasMember(w) ==
    \E i \in DOMAIN nscalls[w] :
        nscalls[w][i] = NSCall("Update", "Namespace", nsns[w], "nil")

\* C19: after a successful removeNamespaceFromMesh(ns), no RoleBinding or
\* NetworkPolicy of ns carries the member-of label of this mesh, ns holds no
\* NetworkAttachmentDefinition, ns is not labeled as a member of this mesh
\* (a previously reconciled namespace has no member-of label at all), and
\* the strategy's removeNamespaceFromMesh was invoked exactly once, with ns
C19_RemoveLeavesNothing ==
    \A w \in Workers : ReturningNil(w, "remove") =>
        /\ MemberRoleBindings(nsns[w]) = {}
        /\ MemberPolicies(nsns[w]) = {}
        /\ ~nad[nsns[w]]
        /\ nslabel[nsns[w]] # MeshNamespace
        /\ (WasMember(w) => nslabel[nsns[w]] = "")
        /\ sinvoked[w] = << [method |-> "remove", ns |-> nsns[w]] >>

\* a successful removal that deleted a RoleBinding, the
\* NetworkAttachmentDefinition and a NetworkPolicy and removed the label
C19_Witness ==
    \E w \in Workers :
        /\ ReturningNil(w, "remove")
        /\ WasMember(w)
        /\ \E i \in DOMAIN nscalls[w] :
              nscalls[w][i].op = "Delete" /\ nscalls[w][i].kind = "RoleBinding"
        /\ \E i \in DOMAIN nscalls[w] :
              nscalls[w][i].op = "Delete"
              /\ nscalls[w][i].kind = "NetworkAttachmentDefinition"
        /\ \E i \in DOMAIN ncalls[w] :
              ncalls[w][i].op = "Delete" /\ ncalls[w][i].res = "nil"

ListedNames(w) == {rblist[w][i].name : i \in DOMAIN rblist[w]}

\* w's reconciler was constructed after the last change of the mesh
\* namespace's RoleBindings
NewlyConstructed(w) == ListedNames(w) = MeshRoleBindings

DeleteFailed(w) ==
    \E i \in DOMAIN nscalls[w] :
        nscalls[w][i].op = "Delete" /\ nscalls[w][i].res = "error"

\* C20: once the delete loop of a reconcileNamespaceInMesh call made by a
\* newly constructed reconciler has ended without a failed Delete, every
\* member-of-labeled RoleBinding of the namespace is a non-internal
\* RoleBinding of the mesh namespace: the copies of deleted mesh
\* RoleBindings are gone
C20_ObsoleteCopyDeleted ==
    \A w \in Workers :
        (/\ nspc[w] \in {"strategy", "wait"}
         /\ nskind[w] = "reconcile"
         /\ NewlyConstructed(w)
         /\ ~DeleteFailed(w))
        => MemberRoleBindings(nsns[w]) \subseteq RequiredOfMesh

\* rb1 was deleted from the mesh namespace, and a reconciler constructed
\* afterwards has deleted its copy
C20_Witness ==
    \E w \in Workers :
        /\ nspc[w] = "wait"
        /\ nskind[w] = "reconcile"
        /\ NewlyConstructed(w)
        /\ ~rbs[MeshNamespace]["rb1"].present
        /\ ~rbs[nsns[w]]["rb1"].present
        /\ \E i \in DOMAIN nscalls[w] :
              nscalls[w][i] = NSCall("Delete", "RoleBinding", "rb1", "nil")

\* C21, as stated: when InstallCRDs returns after walking the CRD directory,
\* every file of the directory has been processed, whatever errors the
\* files before it produced
C21_OtherFilesStillProcessed ==
    \A w \in Workers :
        (ipc[w] = "ret" /\ ChartFiles(iver[w]) # << >>)
        => ifile[w] > Len(ChartFiles(iver[w]))


RECURSIVE Count(_, _)
\* the number of elements of the sequence calls that equal op
Count(calls, op) ==
    IF calls = << >> THEN 0
    ELSE (IF Head(calls) = op THEN 1 ELSE 0) + Count(Tail(calls), op)

Retrying(pc) == pc \in {"create2", "update2"}

FirstAttempt(pc) == IF pc = "create2" THEN "create" ELSE "update"

\* C22: createCRD issues a second Create (or Update) only from the first
\* one, only when that was rejected with the type:object schema error, and
\* only with the schema stripped of type:object; the retry is the last call:
\* createCRD returns nil if it succeeded and an error otherwise; no
\* createCRD issues more than two Create or two Update calls
C22_RetryExactlyOnce ==
    [][\A w \in Workers :
          /\ (Retrying(ipc'[w]) /\ ipc'[w] # ipc[w]) =>
                /\ ipc[w] = FirstAttempt(ipc'[w])
                /\ cerr'[w] = "typeobject"
                /\ icrd[w].schema = "object"
                /\ icrd'[w].schema = "stripped"
                /\ crds' = crds
          /\ (Retrying(ipc[w]) /\ ipc'[w] # ipc[w]) =>
                /\ ipc'[w] = "walk"
                /\ ierrs'[w] = ierrs[w] + (IF cerr'[w] = "nil" THEN 0 ELSE 1)
                /\ cerr'[w] = "nil" <=> crds' # crds
          /\ Count(icalls'[w], "Create") <= 2
          /\ Count(icalls'[w], "Update") <= 2
          /\ Count(icalls'[w], "Create") = 0 \/ Count(icalls'[w], "Update") = 0
      ]_vars

\* a Create rejected for type:object was retried with the stripped schema
\* and installed the CRD; elsewhere the retry was rejected as well
C22_Witness ==
    \E w \in Workers :
        /\ ipc[w] = "walk"
        /\ icalls[w] = <<"Get", "Create", "Create">>
        /\ cerr[w] = "nil"
        /\ crds[icrd[w].name].present
        /\ crds[icrd[w].name].schema = "stripped"


\* C23: the installer changes the ClusterRole istio-admin only by creating
\* it: no step removes it; it comes into existence only by the Create of an
\* installCRDRole whose Get reported NotFound; a Create is issued only after
\* such a Get and only while the role is absent, so the role is not created
\* again while it exists
C23_RoleLookupThenCreate ==
    [][ /\ role => role'
        /\ role' # role =>
              \E w \in Workers :
                  /\ ipc[w] = "roleCreate"
                  /\ rcalls'[w] = << RCall("Get", "NotFound"), RCall("Create", "nil") >>
        /\ \A w \in Workers :
              /\ rcalls'[w] # rcalls[w] /\ ipc[w] = "roleCreate" =>
                    /\ ~role
                    /\ rcalls[w] = << RCall("Get", "NotFound") >>
              /\ \A i \in DOMAIN rcalls'[w] :
                    rcalls'[w][i].op = "Create" => i = 2
      ]_vars

\* one invocation created the role and a later one found it with its Get
C23_Witness ==
    \E w1, w2 \in Workers :
        /\ w1 # w2
        /\ rcalls[w1] = << RCall("Get", "NotFound"), RCall("Create", "nil") >>
        /\ rcalls[w2] = << RCall("Get", "nil") >>
        /\ role


(***************************************************************************)
(*                Properties of ControlPlaneReconciler.Delete              *)
(***************************************************************************)
Deleting == Event("Normal", "ServiceMeshDeleting", "Deleting service mesh")

\* C24: Delete emits "ServiceMeshDeleting" before prune starts and nothing
\* else until prune has returned and the return value is set; it then emits
\* exactly one "ServiceMeshDeleted" event, Normal when prune returned nil and
\* Warning with the error otherwise, and it returns what prune returned
C24_EventsAroundPrune ==
    \A w \in Workers :
        /\ dpc[w] \in {"deleting", "pruning", "pruned", "deferred"} =>
              devents[w] = << Deleting >>
        /\ dpc[w] \in {"deleting", "pruning"} => derr[w] = "unset"
        /\ dpc[w] \in {"pruned", "deferred"} => derr[w] \in PruneErrors
        /\ (dpc[w] = "idle" /\ devents[w] # << >>) =>
              /\ derr[w] \in PruneErrors
              /\ dret[w] = derr[w]
              /\ Len(devents[w]) = 2
              /\ devents[w][1] = Deleting
              /\ devents[w][2].reason = "ServiceMeshDeleted"
              /\ devents[w][2].type = (IF derr[w] = "nil" THEN "Normal" ELSE "Warning")
              /\ derr[w] # "nil" => devents[w][2].message[2] = derr[w]

\* a Delete whose prune failed has returned the error after a Warning
C24_Witness ==
    \E w \in Workers :
        /\ dpc[w] = "idle"
        /\ dret[w] = "forbidden"
        /\ Len(devents[w]) = 2
        /\ devents[w][2].type = "Warning"

\* ---- Properties of the hooks, the empty patch, the manifest names and
\* the List documents

HookFailedAt(w, i) ==
    mcalls[w][i].op = "PreHook" /\ mcalls[w][i].res # "nil"

\* C25: when the pre-process hook fails for an object, the next thing
\* processObject does is return the hook's error for that object: no Get,
\* Create, patch or Delete follows the failed hook, and when
\* ProcessManifests returns every object of the batch has still been
\* handed to the hook and returned.
C25_PreHookFailureAbortsObject ==
    \A w \in Workers :
        /\ \A i \in DOMAIN mcalls[w] :
              HookFailedAt(w, i) =>
                  /\ Has(w, i, 1)
                  /\ At(w, i, 1).op = "Return"
                  /\ At(w, i, 1).key = mcalls[w][i].key
                  /\ At(w, i, 1).res = "hook"
        /\ Returned(w) =>
              LET docs == YamlDocs(manifests[w]) IN
              /\ NumCalls(w, "PreHook") = Len(Flat(docs))
              /\ NumCalls(w, "Return") = Len(Flat(docs))

\* C25 witness: a call has returned in which the hook failed for one object
\* and a later object of the batch was created or patched
C25_Witness ==
    \E w \in Workers :
        /\ Returned(w)
        /\ \E i, j \in DOMAIN mcalls[w] :
              /\ HookFailedAt(w, i)
              /\ j > i + 1
              /\ mcalls[w][j].op \in {"Create", "Apply"}
              /\ mcalls[w][j].res = "nil"

\* the i-th call is the accepted Create of an object that was not found
CreatedNew(w, i) ==
    /\ mcalls[w][i].op = "Create" /\ mcalls[w][i].res = "nil"
    /\ i > 1
    /\ mcalls[w][i - 1].op = "Get" /\ mcalls[w][i - 1].res = "NotFound"

\* C26: the accepted Create of an object that was not found is followed by
\* one invocation of the post-process hook for that object and then by the
\* return of nil for it, whatever the hook returned; the hook is invoked
\* nowhere else; and a call of documents that all decode, in which every
\* object was reported as nil, returns a nil aggregate.
C26_PostHookErrorOnlyLogged ==
    \A w \in Workers :
        /\ \A i \in DOMAIN mcalls[w] :
              /\ CreatedNew(w, i) =>
                    /\ Has(w, i, 1) =>
                          /\ At(w, i, 1).op = "PostHook"
                          /\ At(w, i, 1).key = mcalls[w][i].key
                    /\ Has(w, i, 2) =>
                          /\ At(w, i, 2).op = "Return"
                          /\ At(w, i, 2).key = mcalls[w][i].key
                          /\ At(w, i, 2).res = "nil"
              /\ mcalls[w][i].op = "PostHook" =>
                    /\ i > 1 /\ CreatedNew(w, i - 1)
                    /\ Has(w, i, 1) /\ At(w, i, 1).op = "Return"
        /\ (/\ Returned(w)
            /\ NumBad(YamlDocs(manifests[w])) = 0
            /\ \A i \in DOMAIN mcalls[w] :
                  mcalls[w][i].op = "Return" => mcalls[w][i].res = "nil") =>
              mret[w] = << >>

\* C26 witness: a call has returned nil although the post-process hook
\* failed for an object it created, and the object is in the cluster
C26_Witness ==
    \E w \in Workers :
        /\ Returned(w)
        /\ mret[w] = << >>
        /\ \E i \in DOMAIN mcalls[w] :
              /\ mcalls[w][i].op = "PostHook" /\ mcalls[w][i].res = "error"
              /\ objs[mcalls[w][i].key].present

\* worker w's Get finds the object and CreatePatch returns no patch for it
EmptyPatchStep(w) ==
    /\ mpc[w] = "get"
    /\ mcalls'[w] # mcalls[w]
    /\ objs[obj[w].key].present
    /\ CreatePatch(objs[obj[w].key], obj[w]) = "none"
    /\ faults' = faults

\* C27: when the Get finds the object and CreatePatch returns a nil patch
\* for it, processObject returns nil for the object right after the Get:
\* the step logs the Get and the Return and nothing else (no Apply, Delete
\* or Create), and the cluster is left as it was.
C27_EmptyPatchNotApplied ==
    [][\A w \in Workers :
          EmptyPatchStep(w) =>
              LET n == Len(mcalls[w]) IN
              /\ mpc'[w] = "loop"
              /\ objs' = objs
              /\ nextRV' = nextRV
              /\ Len(mcalls'[w]) = n + 2
              /\ mcalls'[w][n + 1].op = "Get"
              /\ mcalls'[w][n + 2].op = "Return"
              /\ mcalls'[w][n + 2].key = obj[w].key
              /\ mcalls'[w][n + 2].res = "nil"]_vars

\* C27 witness: a call has returned in which an object was found with
\* nothing to patch, and nil was returned for it
C27_Witness ==
    \E w \in Workers :
        /\ Returned(w)
        /\ \E i \in DOMAIN mcalls[w] :
              /\ mcalls[w][i].op = "Get" /\ mcalls[w][i].res = "found:nopatch"
              /\ Has(w, i, 1)
              /\ At(w, i, 1).op = "Return" /\ At(w, i, 1).res = "nil"
              /\ objs[mcalls[w][i].key].present

\* the last part of the blob's name is ".yaml"
NamedYaml(man) == man.name # << >> /\ man.name[Len(man.name)] = ".yaml"

RECURSIVE DocsOfNamedYaml(_)
\* the top-level documents of the blobs of a batch whose name ends in .yaml
DocsOfNamedYaml(ms) ==
    IF ms = << >> THEN << >>
    ELSE (IF NamedYaml(Head(ms)) THEN Head(ms).docs ELSE << >>)
         \o DocsOfNamedYaml(Tail(ms))

\* C28: a blob whose name does not end in .yaml is skipped: while it is the
\* current blob no document is pending or being processed, and when
\* ProcessManifests returns, the documents dispatched, the objects handed
\* to processObject and (when no hook and no client call failed) the
\* errors of the aggregate are exactly those of the blobs whose name ends
\* in .yaml, all of which were processed.
C28_OnlyYamlBlobsProcessed ==
    \A w \in Workers :
        /\ (/\ mpc[w] # "idle"
            /\ mman[w] >= 1
            /\ ~NamedYaml(manifests[w][mman[w]])) =>
              /\ mpc[w] = "loop"
              /\ Len(stack[w]) = 1
              /\ stack[w][1].docs = << >>
        /\ Returned(w) =>
              LET docs == DocsOfNamedYaml(manifests[w]) IN
              /\ mseen[w] = CountDocs(docs)
              /\ NumCalls(w, "PreHook") = Len(Flat(docs))
              /\ \A i \in DOMAIN mcalls[w] :
                    \E j \in DOMAIN Flat(docs) :
                        mcalls[w][i].key = Flat(docs)[j].key
              /\ faults = mf0[w] => Len(mret[w]) = NumBad(docs)

\* C28 witness: the batch with two blobs that are not .yaml, one of them
\* holding an undecodable document, has returned with its five .yaml
\* documents dispatched and the one decode error of a .yaml blob
C28_Witness ==
    \E w \in Workers :
        /\ Returned(w)
        /\ \E i, j \in DOMAIN manifests[w] :
              /\ i # j
              /\ ~NamedYaml(manifests[w][i]) /\ manifests[w][i].docs # << >>
              /\ ~NamedYaml(manifests[w][j]) /\ NumBad(manifests[w][j].docs) > 0
        /\ mseen[w] > 0
        /\ mret[w] = <<"decode">>

RECURSIVE NumLists(_)
\* the List documents of a sequence of documents, nested ones included
NumLists(docs) ==
    IF docs = << >> THEN 0
    ELSE (IF Head(docs).kind = "list" THEN 1 ELSE 0)
         + NumLists(Head(docs).items) + NumLists(Tail(docs))

TopLevelLists(docs) == {i \in DOMAIN docs : docs[i].kind = "list"}

\* the objects of the documents with key k, the items of Lists included
ObjectsWithKey(docs, k) == {i \in DOMAIN Flat(docs) : Flat(docs)[i].key = k}

CallsWith(w, op, k) ==
    {i \in DOMAIN mcalls[w] : mcalls[w][i].op = op /\ mcalls[w][i].key = k}

FailedReturns(w) ==
    {i \in DOMAIN mcalls[w] : mcalls[w][i].op = "Return" /\ mcalls[w][i].res # "nil"}

\* the errors of the aggregate that are neither a decode error nor the
\* aggregate of a List: those of the top-level objects
TopLevelObjectErrors(w) ==
    {i \in DOMAIN mret[w] : mret[w][i] \notin {"decode", "aggregate"}}

ListErrors(w) == {i \in DOMAIN mret[w] : mret[w][i] = "aggregate"}

CreateOfAbsent(w, i) ==
    /\ mcalls[w][i].op = "Create"
    /\ i > 1
    /\ mcalls[w][i - 1].op = "Get" /\ mcalls[w][i - 1].res = "NotFound"
    /\ mcalls[w][i - 1].key = mcalls[w][i].key

\* the accepted Creates of object k in the calls in progress or last
\* returned, as pairs of worker and position
AcceptedCreates(k) ==
    UNION {{<<w, i>> : i \in {j \in DOMAIN mcalls[w] :
                                 /\ CreateOfAbsent(w, j)
                                 /\ mcalls[w][j].key = k
                                 /\ mcalls[w][j].res = "nil"}} : w \in Workers}

\* C30: two workers may both find the same object absent and both send its
\* Create (nothing in the process serializes them); the server accepts at
\* most one of the Creates; the rejected one is answered AlreadyExists,
\* and the worker's next step is to return that error for the object, with
\* no Delete and no other call; the object is then in the cluster as the
\* accepted Create stored it.
C30_RaceSettledByServer ==
    /\ \A k \in Keys : Cardinality(AcceptedCreates(k)) <= 1
    /\ \A w \in Workers : \A i \in DOMAIN mcalls[w] :
          (CreateOfAbsent(w, i) /\ mcalls[w][i].res # "nil") =>
              /\ mcalls[w][i].res = "AlreadyExists"
              /\ Has(w, i, 1)
              /\ At(w, i, 1).op = "Return"
              /\ At(w, i, 1).key = mcalls[w][i].key
              /\ At(w, i, 1).res = "Create:AlreadyExists"
              /\ objs[mcalls[w][i].key].present
              /\ objs[mcalls[w][i].key].by = "processor"

\* C30 witness: both workers found the object absent, one Create was
\* accepted and the other rejected, both calls have returned and the
\* object is in the cluster
C30_Witness ==
    \E w, v \in Workers :
        /\ w # v
        /\ Returned(w) /\ Returned(v)
        /\ mstarted[w] = 1 /\ mstarted[v] = 1
        /\ AcceptedCreates("k1") = {<<w, 3>>}
        /\ CreateOfAbsent(v, 3) /\ mcalls[v][3].res = "AlreadyExists"
        /\ mret[w] = << >>
        /\ mret[v] = <<"Create:AlreadyExists">>
        /\ objs["k1"].present

\* ---- Properties of SkipReconciliationUntilCacheSynced

\* C31: a call of SkipReconciliationUntilCacheSynced with the map in its
\* context is one step in which no time passes: it sets the entry of one
\* name to now + 2 seconds and leaves the entries of all other names as
\* they were; no entry changes in any other way.
C31_SkipSetsOneEntry ==
    [][earliest' # earliest =>
          /\ clock' = clock
          /\ hpanic' = hpanic
          /\ \E n \in NamespacedNames :
                /\ earliest'[n] = Entry(clock + 2)
                /\ \A m \in NamespacedNames \ {n} : earliest'[m] = earliest[m]]_vars

\* C31 witness: two names were postponed at different times and a third
\* was never postponed
C31_Witness ==
    \E n, m, o \in NamespacedNames :
        /\ earliest[n] = Entry(2)
        /\ earliest[m] = Entry(clock + 2)
        /\ clock > 0
        /\ earliest[o] = NoEntry

\* ---- Properties of the strategy's required set

\* the NetworkPolicies of the mesh namespace that carry the owner label of
\* the mesh and no internal annotation
RequiredNow ==
    {n \in NPNames : /\ nps[MeshNamespace][n].present
                     /\ nps[MeshNamespace][n].owner = MeshNamespace
                     /\ ~nps[MeshNamespace][n].internal}

\* C32: the step that constructs a strategy sets its required set to the
\* names of the mesh namespace's NetworkPolicies labeled owner=<mesh
\* namespace> that carry no internal annotation; no later step changes the
\* set or the listed policies, whatever happens to the mesh namespace; a
\* reconcile pass creates only names of the set, deletes only names outside
\* it, and a pass that returns nil leaves the namespace, whichever it is,
\* with exactly the set.
C32_RequiredSetComputedOnce ==
    [][\A w \in Workers :
          /\ (npc[w] = "none" /\ npc'[w] # "none") => srequired'[w] = RequiredNow
          /\ npc[w] # "none" =>
                /\ srequired'[w] = srequired[w]
                /\ slist'[w] = slist[w]
          /\ (w \in nactive /\ npc[w] # "none" /\ nkind[w] = "reconcile") =>
                /\ \A n \in NPNames :
                      /\ (~nps[nns[w]][n].present /\ nps'[nns[w]][n].present)
                            => n \in srequired[w]
                      /\ (nps[nns[w]][n].present /\ ~nps'[nns[w]][n].present)
                            => n \notin srequired[w]
                /\ (npc[w] = "del" /\ npc'[w] = "idle" /\ nret'[w] = << >>) =>
                      {n \in NPNames : /\ nps'[nns[w]][n].present
                                       /\ nps'[nns[w]][n].memberOf = MeshNamespace}
                         = srequired[w]]_vars

\* the last call of w was a reconcile pass of ns that returned nil
ReconciledNil(w, ns) ==
    /\ npc[w] = "idle" /\ nkind[w] = "reconcile" /\ nns[w] = ns
    /\ nret[w] = << >>

\* C32 witness: after a policy of the mesh namespace was deleted, the
\* strategy constructed before has reconciled app1 and then app2 against
\* the set it computed, which still holds the deleted name
C32_Witness ==
    \E w \in nactive :
        /\ srequired[w] # RequiredNow
        /\ Cardinality(srequired[w]) = 2
        /\ ReconciledNil(w, "app2")
        /\ nprev[w].kind = "reconcile" /\ nprev[w].ns = "app1"
        /\ nprev[w].ret = << >>
        /\ \A ns \in Members :
              {n \in NPNames : nps[ns][n].present
                               /\ nps[ns][n].memberOf = MeshNamespace} = srequired[w]

\* ---- Properties of the CRD lock

\* C33: every return of InstallCRDs leaves the lock free, whatever it
\* returns; a worker that is not inside InstallCRDs never holds the lock;
\* every holder eventually gives the lock up; and every worker blocked in
\* crdMutex.Lock() eventually acquires it.
C33_LockReleasedOnEveryReturn ==
    /\ [][\A w \in Workers :
             (ipc[w] = "ret" /\ ipc'[w] = "idle") => crdMutex' = "free"]_vars
    /\ \A w \in Workers :
          /\ [](ipc[w] \in {"idle", "lock"} => crdMutex # w)
          /\ (crdMutex = w) ~> (crdMutex # w)
          /\ (ipc[w] = "lock") ~> (crdMutex = w)

\* C33 witness: an invocation has failed and returned, and the other
\* worker, which called while the lock was held, is blocked no longer and
\* holds the lock
C33_Witness ==
    \E w, v \in Workers :
        /\ w # v
        /\ ipc[v] = "idle" /\ iret[v] = "error"
        /\ crdMutex = w /\ ipc[w] = "stat"
        /\ installs = 2

\* the CRD w's createCRD works on is installed with the same version label
EqualVersionInstalled(w) ==
    /\ crds[icrd[w].name].present
    /\ getMaistraVersion(icrd[w]) # << >>
    /\ crds[icrd[w].name].label = icrd[w].label

\* C34: with the lock, a worker is about to send a Create only for a CRD
\* that is absent, so no Create is answered AlreadyExists and, CRDs never
\* being deleted, a CRD is created once; a worker whose Get finds the CRD
\* installed with the version of the chart sends no Update and no Create
\* for it and leaves it as it is.
C34_CreatedOnceUnderLock ==
    /\ [](\A w \in Workers :
             /\ ipc[w] \in {"create", "create2"} => ~crds[icrd[w].name].present
             /\ cerr[w] # "AlreadyExists")
    /\ [][\A w \in Workers :
             /\ (ipc[w] = "get" /\ ipc'[w] # "get" /\ EqualVersionInstalled(w)) =>
                   /\ ipc'[w] \notin {"update", "create"}
                   /\ crds' = crds
             /\ \A n \in CRDNames : crds[n].present => crds'[n].present]_vars

\* C34 witness: both workers have installed the same chart version on a
\* cluster that had no CRD; both returned nil without any failure and the
\* CRDs of the chart are installed
C34_Witness ==
    /\ installs = 2
    /\ \A w \in Workers :
          /\ ipc[w] = "idle"
          /\ iver[w] = "v1"
          /\ iret[w] = "nil"
    /\ faults = MaxFaults - 1
    /\ \A n \in CRDNames : crds[n].present /\ crds[n].label = "1.0.0"


\* ---------------------------------------------------------------------
\* C35: createCRD looks at the incoming CRD's version label only when a
\* CRD of that name exists.  A Get that finds the CRD while the incoming
\* label is absent or unparseable makes createCRD return an error at once:
\* the error count of the file grows, no Update or Create follows and the
\* cluster is unchanged.  A Get that finds nothing goes on to Create
\* whatever the label is, and an accepted Create stores the incoming CRD
\* with its label as it is.
C35_VersionCheckedOnlyWhenExists ==
    [][\A w \in Workers :
        /\ (/\ ipc[w] = "get"
            /\ faults' = faults
            /\ icalls'[w] # icalls[w]) =>
              IF crds[icrd[w].name].present
              THEN NewVersion(icrd[w].label) = << >> =>
                      /\ ipc'[w] = "walk"
                      /\ ierrs'[w] = ierrs[w] + 1
                      /\ crds' = crds
              ELSE ipc'[w] = "create"
        /\ (/\ ipc[w] = "create"
            /\ icalls'[w] # icalls[w]
            /\ cerr'[w] = "nil") =>
              /\ crds'[icrd[w].name].present
              /\ crds'[icrd[w].name].label = icrd[w].label]_vars

\* both cases have happened: chart v3's CRD "a", which has no version
\* label, was created where it was absent, and a second install of v3
\* then found it and returned the version error (no call was failed)
C35_Witness ==
    /\ faults = 0
    /\ crds["a"].present
    /\ crds["a"].label = ""
    /\ \E w \in Workers :
        /\ ipc[w] = "idle"
        /\ iver[w] = "v3"
        /\ iret[w] = "error"

\* worker w's Get of the live object fails with an error other than NotFound
GetFailedStep(w) ==
    /\ mpc[w] = "get"
    /\ Len(mcalls'[w]) > Len(mcalls[w])
    /\ mcalls'[w][Len(mcalls[w]) + 1].op = "Get"
    /\ mcalls'[w][Len(mcalls[w]) + 1].res = "error"

\* C36: when the Get of an object's live state fails with an error other
\* than NotFound, processObject returns that error in the same step: the
\* Get is the object's last call (no Create, Apply, Delete or post-process
\* hook follows it), the error is appended to the caller's errors, and the
\* cluster is unchanged.
C36_GetErrorReturnedUnchanged ==
    [][\A w \in Workers :
        GetFailedStep(w) =>
            LET n == Len(mcalls[w]) IN
            /\ Len(mcalls'[w]) = n + 2
            /\ mcalls'[w][n + 2].op = "Return"
            /\ mcalls'[w][n + 2].key = obj[w].key
            /\ mcalls'[w][n + 2].res = "Get:error"
            /\ objs' = objs
            /\ nextRV' = nextRV
            /\ mpc'[w] = "loop"
            /\ stack'[w][Len(stack[w])].errs =
                  Append(stack[w][Len(stack[w])].errs, "Get:error")]_vars

\* C36 witness: a call has returned in which the Get of an object failed;
\* the pre-process hook had run for the object, the object is still absent
\* and the call went on to a later object
C36_Witness ==
    \E w \in Workers :
        /\ Returned(w)
        /\ \E i \in DOMAIN mcalls[w] :
              /\ i > 1
              /\ mcalls[w][i].op = "Get" /\ mcalls[w][i].res = "error"
              /\ mcalls[w][i - 1].op = "PreHook"
              /\ mcalls[w][i - 1].key = mcalls[w][i].key
              /\ ~objs[mcalls[w][i].key].present
              /\ Has(w, i, 2)

\* the i-th call of worker w is the fallback's re-Create: it follows the
\* Delete of the same object
RecreatedAt(w, i) ==
    /\ mcalls[w][i].op = "Create"
    /\ i > 1
    /\ mcalls[w][i - 1].op = "Delete"

\* C37: the post-process hook is invoked exactly after the accepted Create
\* of an object whose Get answered NotFound: a call is the hook's
\* invocation if and only if the two calls before it are that Get and that
\* Create of the same object, and a worker is about to invoke the hook
\* only when its last call is such a Create.  A failed Create, a patch
\* Apply (accepted or not), and the Create of the delete-then-recreate
\* fallback are never followed by the hook.
C37_PostHookOnlyAfterInitialCreate ==
    \A w \in Workers :
        /\ \A i \in DOMAIN mcalls[w] :
              /\ (mcalls[w][i].op = "PostHook") <=>
                    /\ i > 2
                    /\ mcalls[w][i - 1].op = "Create"
                    /\ mcalls[w][i - 1].res = "nil"
                    /\ mcalls[w][i - 1].key = mcalls[w][i].key
                    /\ mcalls[w][i - 2].op = "Get"
                    /\ mcalls[w][i - 2].res = "NotFound"
                    /\ mcalls[w][i - 2].key = mcalls[w][i].key
              /\ (mcalls[w][i].op = "Create" /\ mcalls[w][i].res # "nil") =>
                    /\ Has(w, i, 1)
                    /\ At(w, i, 1).op = "Return"
              /\ (mcalls[w][i].op = "Apply" /\ Has(w, i, 1)) =>
                    At(w, i, 1).op \in {"Return", "Delete"}
              /\ RecreatedAt(w, i) =>
                    /\ Has(w, i, 1)
                    /\ At(w, i, 1).op = "Return"
        /\ (mpc[w] = "post") <=>
              /\ Len(mcalls[w]) > 1
              /\ mcalls[w][Len(mcalls[w])].op = "Create"
              /\ mcalls[w][Len(mcalls[w])].res = "nil"
              /\ mcalls[w][Len(mcalls[w]) - 1].op = "Get"
              /\ mcalls[w][Len(mcalls[w]) - 1].res = "NotFound"

\* C37 witness: one call has returned in which the hook ran for a created
\* object and another object was re-created by the fallback without it
C37_Witness ==
    \E w \in Workers :
        /\ Returned(w)
        /\ \E i, j \in DOMAIN mcalls[w] :
              /\ mcalls[w][i].op = "PostHook"
              /\ RecreatedAt(w, j) /\ mcalls[w][j].res = "nil"
              /\ objs[mcalls[w][j].key].present

\* worker w's reconcile pass deletes a policy that is no longer there
DeleteOfGone(w) ==
    /\ npc[w] = "del"
    /\ Len(ncalls'[w]) = Len(ncalls[w]) + 1
    /\ ncalls'[w][Len(ncalls'[w])].op = "Delete"
    /\ ncalls'[w][Len(ncalls'[w])].res \in {"NotFound", "Gone"}

\* a reconcile pass of worker w has returned
ReconcileReturned(w) ==
    /\ npc[w] = "idle"
    /\ nkind[w] = "reconcile"
    /\ nret[w] # <<"running">>
    /\ ncalls[w] # << >>

\* C38: in reconcileNamespaceInMesh the Delete of an obsolete policy that
\* is answered NotFound or Gone adds nothing to the pass's errors and
\* changes nothing in the cluster, and a pass in which every call was
\* answered nil, NotFound or Gone returns nil.
C38_DeleteOfGoneIsNoError ==
    /\ [][\A w \in Workers :
            DeleteOfGone(w) => nerrs'[w] = nerrs[w] /\ nps' = nps]_vars
    /\ [](\A w \in Workers :
            (/\ ReconcileReturned(w)
             /\ \A i \in DOMAIN ncalls[w] :
                   ncalls[w][i].res \in {"nil", "NotFound", "Gone"})
                => nret[w] = << >>)

\* C38 witness: a reconcile pass has returned nil although one of its
\* Deletes found the listed policy gone
C38_Witness ==
    \E w \in Workers :
        /\ ReconcileReturned(w)
        /\ nret[w] = << >>
        /\ \E i \in DOMAIN ncalls[w] :
              /\ ncalls[w][i].op = "Delete"
              /\ ncalls[w][i].res \in {"NotFound", "Gone"}
              /\ ncalls[w][i].name \in ncalls[w][1].names

\* the values of an array, a map or a pointer
RangeOf(f) == {f[x] : x \in DOMAIN f}

\* the schemas directly below a schema, through every place that holds one
SubSchemas(n) ==
    RangeOf(n.oneOf) \cup RangeOf(n.anyOf) \cup RangeOf(n.allOf)
    \cup RangeOf(n.properties) \cup RangeOf(n.patternProperties)
    \cup RangeOf(n.definitions) \cup RangeOf(n.not)
    \cup UNION {RangeOf(it.schema) \cup RangeOf(it.jsonSchemas) :
                   it \in RangeOf(n.items)}
    \cup UNION {RangeOf(a.schema) : a \in RangeOf(n.additionalProperties)}
    \cup UNION {RangeOf(a.schema) : a \in RangeOf(n.additionalItems)}
    \cup UNION {RangeOf(dep.schema) : dep \in RangeOf(n.dependencies)}

\* some schema reachable from n, n included, has type "object"
RECURSIVE HasTypeObject(_)
HasTypeObject(n) ==
    \/ n.type = "object"
    \/ \E k \in SubSchemas(n) : HasTypeObject(k)

\* b is a with every type "object" emptied and nothing else changed
RECURSIVE SameButObject(_, _)
RECURSIVE AllSameButObject(_, _)
SameButObject(a, b) ==
    /\ b.type = (IF a.type = "object" THEN "" ELSE a.type)
    /\ b.description = a.description
    /\ AllSameButObject(a.oneOf, b.oneOf)
    /\ AllSameButObject(a.anyOf, b.anyOf)
    /\ AllSameButObject(a.allOf, b.allOf)
    /\ AllSameButObject(a.properties, b.properties)
    /\ AllSameButObject(a.patternProperties, b.patternProperties)
    /\ AllSameButObject(a.definitions, b.definitions)
    /\ AllSameButObject(a.not, b.not)
    /\ DOMAIN a.items = DOMAIN b.items
    /\ \A i \in DOMAIN a.items :
          /\ AllSameButObject(a.items[i].schema, b.items[i].schema)
          /\ AllSameButObject(a.items[i].jsonSchemas, b.items[i].jsonSchemas)
    /\ DOMAIN a.additionalProperties = DOMAIN b.additionalProperties
    /\ \A i \in DOMAIN a.additionalProperties :
          /\ b.additionalProperties[i].allows = a.additionalProperties[i].allows
          /\ AllSameButObject(a.additionalProperties[i].schema,
                              b.additionalProperties[i].schema)
    /\ DOMAIN a.additionalItems = DOMAIN b.additionalItems
    /\ \A i \in DOMAIN a.additionalItems :
          /\ b.additionalItems[i].allows = a.additionalItems[i].allows
          /\ AllSameButObject(a.additionalItems[i].schema,
                              b.additionalItems[i].schema)
    /\ DOMAIN a.dependencies = DOMAIN b.dependencies
    /\ \A k \in DOMAIN a.dependencies :
          /\ b.dependencies[k].property = a.dependencies[k].property
          /\ AllSameButObject(a.dependencies[k].schema, b.dependencies[k].schema)

AllSameButObject(f, g) ==
    /\ DOMAIN f = DOMAIN g
    /\ \A x \in DOMAIN f : SameButObject(f[x], g[x])

\* the root schema of a CRD that has one
RootOf(crd) == crd.validation[1].openAPIV3Schema[1]

\* C39: a call of RemoveTypeObjectFieldsFromCRDSchema on a CRD without a
\* validation schema returns an error and leaves the CRD as it is.  On a
\* CRD with a schema it returns nil, and afterwards no schema reachable
\* from the root has type "object", every other type and every other field
\* is what it was, and a call on a CRD that a call has already treated
\* changes nothing.
C39_AllTypeObjectRemoved ==
    [][hcalls' = hcalls + 1 =>
        IF hcrd.validation = << >>
           \/ hcrd.validation[1].openAPIV3Schema = << >>
        THEN /\ herr' = "error"
             /\ hcrd' = hcrd
        ELSE /\ herr' = "nil"
             /\ ~NoSchema(hcrd')
             /\ ~HasTypeObject(RootOf(hcrd'))
             /\ SameButObject(RootOf(hcrd), RootOf(hcrd'))
             /\ (hcalls > 0 => hcrd' = hcrd)]_vars

\* C39 witness: the function was called twice on a CRD whose schema has
\* nested properties: the "object" of the second property is gone and a
\* "string" two levels down is still there
C39_Witness ==
    /\ hcalls = 2
    /\ herr = "nil"
    /\ DOMAIN RootOf(hcrd).properties = {"a", "b"}
    /\ RootOf(hcrd).properties["b"].type = ""
    /\ \E k \in SubSchemas(RootOf(hcrd).properties["a"]) : k.type = "string"

\* the CNI runtime populateProxyValues was called with, as a pointer
ConfiguredRuntime == IF pin.cni = << >> THEN << >> ELSE pin.cni[1].runtime

\* C40, as stated: after populateProxyValues returned nil for CNI
\* initialization (type CNI or unset), an imagePullPolicy entry of the
\* istio_cni values is the configured pull-policy string, and configured
\* pull secrets are in the istio_cni values as the list of their names
\* under imagePullSecrets.
C40_PullSecretsNotUnderPullPolicy ==
    (/\ ppc = "done"
     /\ pret = "nil"
     /\ pin.type \in {"CNI", ""}
     /\ ConfiguredRuntime # << >>) =>
        LET cni == pvalues["istio_cni"].val
            rt == ConfiguredRuntime[1]
        IN  /\ "imagePullPolicy" \in DOMAIN cni =>
                  /\ cni["imagePullPolicy"].kind = "string"
                  /\ cni["imagePullPolicy"] = Str(rt.imagePullPolicy)
                  /\ rt.imagePullPolicy # ""
            /\ rt.imagePullSecrets # << >> =>
                  /\ "imagePullSecrets" \in DOMAIN cni
                  /\ cni["imagePullSecrets"].kind = "list"
                  /\ Len(cni["imagePullSecrets"].val) = Len(rt.imagePullSecrets)

====
